---- MODULE Spec2Model ----
(***************************************************************************)
(* A model of the swagger document generator of mystore                   *)
(* (src/rest_framework_swagger): the document view, the configuration     *)
(* lookup, the per-operation parameter resolver, the operation builder    *)
(* and the type-definition closure.                                       *)
(*                                                                         *)
(* Python dictionaries are functions over their keys, lists are sequences,*)
(* None is the string NoneVal.  An exception that leaves a function is a  *)
(* result whose field `error` names the exception.                        *)
(***************************************************************************)
EXTENDS Integers, Sequences, FiniteSets, TLC

VARIABLES
    app,                      \* the installed project: views, serializers, settings
    explicit_serializers,     \* DocumentationGenerator.explicit_serializers (class attribute)
    explicit_response_types,  \* DocumentationGenerator.explicit_response_types (class attribute)
    req,                      \* the document requests in flight, by request id
    pcall,                    \* the method introspector whose parameters are being resolved
    parameters,               \* what _get_operation_parameters returned for pcall
    docstring                 \* a documentation text and what the two readers took from it

vars == <<app, explicit_serializers, explicit_response_types, req, pcall, parameters, docstring>>

----------------------------------------------------------------------------
(* Python values *)

NoneVal == "<None>"

EmptyDict == [k \in {} |-> NoneVal]

Has(d, k) == k \in DOMAIN d

Get(d, k, default) == IF k \in DOMAIN d THEN d[k] ELSE default

Put(d, k, v) == [x \in (DOMAIN d) \cup {k} |-> IF x = k THEN v ELSE d[x]]

Del(d, k) == [x \in (DOMAIN d) \ {k} |-> d[x]]

Update(a, b) == [x \in (DOMAIN a) \cup (DOMAIN b) |-> IF x \in DOMAIN b THEN b[x] ELSE a[x]]

Range(s) == {s[i] : i \in DOMAIN s}

RECURSIVE Concat(_)
Concat(ss) == IF ss = <<>> THEN <<>> ELSE Head(ss) \o Concat(Tail(ss))

\* all sequences over S of length at most n
SeqsUpTo(S, n) == UNION {[1..k -> S] : k \in 0..n}

----------------------------------------------------------------------------
(* Bounds of the model *)

MaxDeclared == 2       \* longest `parameters` list of an override block
RecursionLimit == 6    \* depth at which the interpreter stops a recursion

----------------------------------------------------------------------------
(* Program constants *)

\* yamlparser.py, YAMLDocstringParser.PARAM_TYPES, in the order discover_parameters walks them
PARAM_TYPES == <<"header", "path", "formData", "body", "query">>

\* constants.py, INTROSPECTOR_PRIMITIVES
INTROSPECTOR_PRIMITIVES ==
    [integer |-> <<"int32", "int64">>,
     number  |-> <<"float", "double">>,
     string  |-> <<"string", "byte", "date", "date-time">>,
     boolean |-> <<"boolean">>]

\* str.lower() and str.upper() on the HTTP verbs and action names the model uses
Lower(s) ==
    CASE s = "GET" -> "get" [] s = "POST" -> "post" [] s = "PUT" -> "put"
      [] s = "PATCH" -> "patch" [] s = "DELETE" -> "delete" [] s = "OPTIONS" -> "options"
      [] OTHER -> s

Upper(s) ==
    CASE s = "get" -> "GET" [] s = "post" -> "POST" [] s = "put" -> "PUT"
      [] s = "patch" -> "PATCH" [] s = "delete" -> "DELETE" [] s = "options" -> "OPTIONS"
      [] OTHER -> s

----------------------------------------------------------------------------
(* The installed project (app)                                             *)
(*   app.views[v]  a handler class:                                        *)
(*     variant          the introspector get_introspector picks for it:    *)
(*                      "APIView" | "Generic" | "ViewSet" | "Wrapped"      *)
(*     allowed_methods  sequence of upper-case verbs                       *)
(*     actions          of a ViewSet route: the `actions` map as_view was  *)
(*                      given, a sequence of [http, action]                *)
(*     list_mixin       issubclass(callback, ListModelMixin)               *)
(*     serializer_class the serializer the handler supplies, or NoneVal    *)
(*     paginator        [present, page, size]: pagination_class            *)
(*     filters          sequence of [name, label, choices]                 *)
(*     class_doc        the class docstring                                *)
(*     method_docs      attribute name -> docstring of that method         *)
(*   a docstring is [marker, valid, obj, qlines, text]: whether it holds a *)
(*   `---` line, whether the text after it is well-formed YAML, the object *)
(*   that YAML denotes, its `name -- description` lines, its prose         *)
(*   app.sers[s]   a serializer class: [name, fields, child, in_body,      *)
(*                 swagger_name]: __name__, the declared fields, Meta.child*)
(*                 (NoneVal if absent), Meta._in = "body",                 *)
(*                 Meta.swagger_name ("" if absent)                        *)
(*     a field is [name, cls, target, write_only, read_only, required,     *)
(*     help_text]: cls its rest_framework class, target the serializer     *)
(*     class of a Serializer field or of the child of a ListSerializer     *)
(*   app.urlpatterns, app.global_settings, app.local_settings: the URL     *)
(*   tree of ROOT_URLCONF, SWAGGER_GLOBAL_SETTINGS, SWAGGER_LOCAL_SETTINGS *)
(***************************************************************************)

\* no documentation text under reading
NoText == [pc |-> "idle", split_lines |-> <<>>, description |-> <<>>, yaml_string |-> <<>>]

NoDoc == [marker |-> FALSE, valid |-> TRUE, obj |-> EmptyDict, qlines |-> <<>>, text |-> ""]

NoPaginator == [present |-> FALSE, page |-> NoneVal, size |-> NoneVal]

\* utils.get_serializer_name on a serializer class, on an instance of it, or on None.
\* A serializer object is [cls, inst]; inst = <<>> is the class itself.
NoneSer == [cls |-> NoneVal, inst |-> <<>>]

ClassOf(c) == [cls |-> c, inst |-> <<>>]

get_serializer_name(serializer) ==
    IF serializer.cls = NoneVal THEN NoneVal
    ELSE IF app.sers[serializer.cls].swagger_name # ""
         THEN app.sers[serializer.cls].swagger_name
         ELSE app.sers[serializer.cls].name

----------------------------------------------------------------------------
(* yamlparser.py: the override block *)

\* YAMLDocstringParser.load_obj_from_docstring and __init__: the object and yaml_error
load_obj_from_docstring(doc) ==
    IF ~doc.marker THEN [object |-> EmptyDict, yaml_error |-> FALSE]
    ELSE IF ~doc.valid THEN [object |-> EmptyDict, yaml_error |-> TRUE]
    ELSE [object |-> doc.obj, yaml_error |-> FALSE]

\* str.strip of a line, a sequence of characters
RECURSIVE lstrip(_)
lstrip(line) == IF line # <<>> /\ Head(line) = " " THEN lstrip(Tail(line)) ELSE line

RECURSIVE rstrip(_)
rstrip(line) ==
    IF line # <<>> /\ line[Len(line)] = " " THEN rstrip(SubSeq(line, 1, Len(line) - 1)) ELSE line

strip(line) == rstrip(lstrip(line))

\* load_obj_from_docstring, lines 171-178: the index of the first line that,
\* stripped, starts with '---'; 0 when the loop ends without one (return None)
cut_from(split_lines) ==
    LET starts == {index \in 1..Len(split_lines) :
                      Len(strip(split_lines[index])) >= 3
                      /\ SubSeq(strip(split_lines[index]), 1, 3) = <<"-", "-", "-">>}
    IN IF starts = {} THEN 0
       ELSE CHOOSE index \in starts : \A other \in starts : index <= other

\* load_obj_from_docstring, line 180: the lines joined into yaml_string
yaml_string_lines(split_lines) ==
    IF cut_from(split_lines) = 0 THEN <<>>
    ELSE SubSeq(split_lines, cut_from(split_lines), Len(split_lines))

\* utils.normalize_data_format
normalize_data_format(data_type, data_format, obj) ==
    LET flatten_primitives == UNION {Range(INTROSPECTOR_PRIMITIVES[t]) : t \in DOMAIN INTROSPECTOR_PRIMITIVES}
        f0 == IF data_type = "array" THEN NoneVal ELSE data_format
        f1 == IF f0 \notin flatten_primitives
              THEN IF data_type \in DOMAIN INTROSPECTOR_PRIMITIVES
                   THEN INTROSPECTOR_PRIMITIVES[data_type][1]
                   ELSE NoneVal
              ELSE f0
        f2 == IF f1 = data_type THEN NoneVal ELSE f1
        typed == Put(obj, "type", data_type)
    IN IF f2 = NoneVal THEN Del(typed, "format") ELSE Put(typed, "format", f2)

\* YAMLDocstringParser.get_yaml_parameters, one declared field.  The keys
\* collectionFormat, default, items, minimum, maximum and enum are copied
\* through by the code and read by no property here; they are left out.
yaml_parameter(field) ==
    LET in0 == Get(field, "in", NoneVal)
        param_type == IF in0 \in Range(PARAM_TYPES) THEN in0 ELSE "formData"
        data_type == IF Has(field, "pytype")
                     THEN get_serializer_name(ClassOf(field["pytype"]))
                     ELSE Get(field, "type", "string")
        f == normalize_data_format(
                 data_type, Get(field, "format", NoneVal),
                 [in |-> param_type,
                  name |-> Get(field, "name", NoneVal),
                  description |-> Get(field, "description", ""),
                  required |-> Get(field, "required", FALSE)])
    IN IF f["type"] = "file" THEN Put(f, "in", "body") ELSE f

get_yaml_parameters(object) ==
    LET fields == Get(object, "parameters", <<>>)
    IN [i \in 1..Len(fields) |-> yaml_parameter(fields[i])]

\* YAMLDocstringParser.should_omit_parameters
should_omit_parameters(object, param_type) ==
    param_type \in Range(Get(object, "omit_parameters", <<>>))

\* YAMLDocstringParser.get_parameters_strategy; the value of parameters_strategy
\* is [kind |-> "str", str |-> s] or [kind |-> "map", map |-> location -> s]
get_parameters_strategy(object, param_type) ==
    LET default == "merge"
        given == Get(object, "parameters_strategy", [kind |-> "str", str |-> default])
        strategy == IF given.kind = "map" /\ param_type # NoneVal
                    THEN Get(given.map, param_type, default)
                    ELSE IF given.kind = "map" THEN NoneVal ELSE given.str
    IN IF strategy \notin {"merge", "replace"} THEN default ELSE strategy

\* YAMLDocstringParser._filter_params (Python 2: filter returns a list)
filter_params(params, key, val) ==
    SelectSeq(params, LAMBDA o : Get(o, key, NoneVal) = val)

\* mutant of ordered_set: a list append in place of the keyed assignment
ordered_set_append(merged, item, key) == Append(merged, item)

\* OrderedDict.__setitem__ on a list of items keyed by item[key]: an existing
\* key keeps its position and takes the new value, a new key goes last
ordered_set(merged, item, key) ==
    IF \E i \in 1..Len(merged) : merged[i][key] = item[key]
    THEN [i \in 1..Len(merged) |-> IF merged[i][key] = item[key] THEN item ELSE merged[i]]
    ELSE Append(merged, item)

RECURSIVE merge_chain(_, _, _)
merge_chain(merged, items, key) ==
    IF items = <<>> THEN merged
    ELSE merge_chain(ordered_set(merged, Head(items), key), Tail(items), key)

\* YAMLDocstringParser._merge_params
merge_params(params1, params2, key) == merge_chain(<<>>, params1 \o params2, key)

\* mutant of apply_strategy: `replace` is not recognised and merges
apply_strategy_merge_only(object, param_type, method_params, docstring_params) ==
    merge_params(filter_params(method_params, "in", param_type),
                 filter_params(docstring_params, "in", param_type), "name")

\* YAMLDocstringParser._apply_strategy
apply_strategy(object, param_type, method_params, docstring_params) ==
    LET strategy == get_parameters_strategy(object, param_type)
        mp == filter_params(method_params, "in", param_type)
        dp == filter_params(docstring_params, "in", param_type)
    IN IF strategy = "replace" THEN (IF dp # <<>> THEN dp ELSE mp)
       ELSE IF strategy = "merge" THEN merge_params(mp, dp, "name")
       ELSE <<>>

\* the overwrite of lines 409-413 made the other way round: the reflected
\* parameter keeps the location it was reflected with
relocate_kept(meth_param, docstring_params) == meth_param

\* discover_parameters, lines 409-413: a reflected parameter takes the location
\* of the last same-named declared parameter
relocate(meth_param, docstring_params) ==
    LET same == {i \in 1..Len(docstring_params) :
                    docstring_params[i]["name"] = meth_param["name"] /\ Has(docstring_params[i], "in")}
    IN IF same = {} THEN meth_param
       ELSE Put(meth_param, "in", docstring_params[CHOOSE i \in same : \A j \in same : j <= i]["in"])

\* mutant of force_optional: the test on the location is inverted
force_optional_inverted(http_method, params) ==
    IF http_method = "PATCH"
    THEN [i \in 1..Len(params) |->
             IF params[i]["in"] = "path" THEN Put(params[i], "required", FALSE) ELSE params[i]]
    ELSE params

\* discover_parameters, lines 422-426
force_optional(http_method, params) ==
    IF http_method = "PATCH"
    THEN [i \in 1..Len(params) |->
             IF params[i]["in"] # "path" THEN Put(params[i], "required", FALSE) ELSE params[i]]
    ELSE params

\* YAMLDocstringParser.discover_parameters
discover_parameters(object, reflected, http_method) ==
    LET docstring_params == get_yaml_parameters(object)
        method_params == [i \in 1..Len(reflected) |-> relocate(reflected[i], docstring_params)]
        per_type == [t \in 1..Len(PARAM_TYPES) |->
                        IF should_omit_parameters(object, PARAM_TYPES[t]) THEN <<>>
                        ELSE apply_strategy(object, PARAM_TYPES[t], method_params, docstring_params)]
    IN force_optional(http_method, Concat(per_type))

----------------------------------------------------------------------------
(* introspectors.py: handlers and their method introspectors *)

\* A method introspector is [view, method, http_method]: the handler it was
\* made for, self.method (a verb or an action name) and get_http_method().

\* GenericViewIntrospector.method_actions
method_actions == [post |-> "create", put |-> "update", patch |-> "partial_update", delete |-> "destroy"]

\* GenericViewIntrospector._get_action_from_http_method
get_action_from_http_method(v, http_method) ==
    LET m == Lower(http_method)
    IN IF m = "get" THEN (IF app.views[v].list_mixin THEN "list" ELSE "retrieve")
       ELSE IF m \notin DOMAIN method_actions THEN m
       ELSE method_actions[m]

\* BaseViewIntrospector.__iter__ of the variant DocumentationGenerator.get_introspector picks
view_method_introspectors(v) ==
    LET allowed == app.views[v].allowed_methods
        actions == app.views[v].actions
    IN IF app.views[v].variant = "Generic"
       THEN [i \in 1..Len(allowed) |->
                [view |-> v, method |-> get_action_from_http_method(v, allowed[i]),
                 http_method |-> Upper(allowed[i])]]
       ELSE IF app.views[v].variant = "ViewSet"
       THEN [i \in 1..Len(actions) |->
                [view |-> v, method |-> actions[i].action, http_method |-> Upper(actions[i].http)]]
       ELSE [i \in 1..Len(allowed) |->
                [view |-> v, method |-> allowed[i], http_method |-> allowed[i]]]

\* the keys `key not in self.parent.methods()` is tested against: the list
\* of allowed methods, the keys of the dictionary GenericViewIntrospector.methods()
\* returns (the allowed methods again), the actions ViewSetIntrospector.methods() lists
parent_methods(v) ==
    IF app.views[v].variant = "ViewSet"
    THEN {app.views[v].actions[i].action : i \in 1..Len(app.views[v].actions)}
    ELSE Range(app.views[v].allowed_methods)

\* IntrospectorHelper.strip_yaml_from_docstring, lines 42-49: the index of the
\* last line that, stripped, is '---'; 0 for cut_off = None
cut_off(split_lines) ==
    LET markers == {index \in 1..Len(split_lines) :
                       strip(split_lines[index]) = <<"-", "-", "-">>}
    IN IF markers = {} THEN 0
       ELSE CHOOSE index \in markers : \A other \in markers : index >= other

\* IntrospectorHelper.strip_yaml_from_docstring: the lines it joins
strip_yaml_from_docstring(split_lines) ==
    IF cut_off(split_lines) = 0 THEN split_lines
    ELSE SubSeq(split_lines, 1, cut_off(split_lines) - 1)

\* BaseMethodIntrospector.retrieve_docstring / get_docs
get_docs(mi) ==
    IF app.views[mi.view].variant = "Wrapped" THEN app.views[mi.view].class_doc
    ELSE Get(app.views[mi.view].method_docs, Lower(mi.method), NoDoc)

\* BaseMethodIntrospector.get_yaml_parser with check_yaml_methods;
\* WrappedAPIViewMethodIntrospector.get_yaml_parser reads its own docstring only
get_yaml_parser(mi) ==
    LET parser == load_obj_from_docstring(get_docs(mi))
        parent_parser == load_obj_from_docstring(app.views[mi.view].class_doc)
        missing_set == {key \in DOMAIN parent_parser.object : key \notin parent_methods(mi.view)}
    IN IF app.views[mi.view].variant = "Wrapped"
       THEN [error |-> "", object |-> parser.object, yaml_error |-> parser.yaml_error]
       ELSE IF missing_set # {}
       THEN [error |-> "Exception: methods in class docstring are not in view methods",
             object |-> EmptyDict, yaml_error |-> FALSE]
       ELSE [error |-> "",
             object |-> Update(Get(parent_parser.object, mi.method, EmptyDict), parser.object),
             yaml_error |-> parser.yaml_error]

\* YAMLDocstringParser._load_class on the value of `key`: no value gives None,
\* a name that resolves to no class raises
load_class(object, key) ==
    IF ~Has(object, key) THEN [error |-> "", serializer |-> NoneSer]
    ELSE IF object[key] \notin DOMAIN app.sers
    THEN [error |-> "Exception: Could not find " \o object[key], serializer |-> NoneSer]
    ELSE [error |-> "", serializer |-> ClassOf(object[key])]

\* BaseMethodIntrospector.ask_for_serializer_class
ask_for_serializer_class(mi) ==
    IF app.views[mi.view].serializer_class = NoneVal THEN NoneSer
    ELSE ClassOf(app.views[mi.view].serializer_class)

\* BaseMethodIntrospector.get_request_serializer_class / get_response_serializer_class,
\* given the parser get_yaml_parser returned
serializer_class_from(parser, mi, key) ==
    LET loaded == load_class(parser.object, key)
    IN IF parser.error # "" THEN [error |-> parser.error, serializer |-> NoneSer]
       ELSE IF loaded.error # "" THEN loaded
       ELSE IF loaded.serializer = NoneSer
       THEN [error |-> "", serializer |-> ask_for_serializer_class(mi)]
       ELSE loaded

get_serializer_class(mi, key) == serializer_class_from(get_yaml_parser(mi), mi, key)

get_request_serializer_class(mi) == get_serializer_class(mi, "request_serializer")

get_response_serializer_class(mi) == get_serializer_class(mi, "response_serializer")

\* compat.get_pagination_attribures: page_size, page_query_param and
\* page_size_query_param of the view's pagination descriptor
get_pagination_attribures(v) ==
    LET paginator == app.views[v].paginator
    IN [page_size |-> paginator.present, page_query_param |-> paginator.page,
        page_size_query_param |-> paginator.size]

\* BaseMethodIntrospector.build_query_parameters: the method's docstring
\* followed by the class docstring, one parameter per `name -- description` line
base_build_query_parameters(mi) ==
    LET lines == Get(app.views[mi.view].method_docs, Lower(mi.method), NoDoc).qlines
                 \o app.views[mi.view].class_doc.qlines
    IN [i \in 1..Len(lines) |->
           [in |-> "query", name |-> lines[i].name,
            description |-> lines[i].description, type |-> "string"]]

\* ViewSetMethodIntrospector.build_query_parameters adds the pagination
\* attributes of a `list` action; the other introspectors use the base method
build_query_parameters(mi) ==
    LET attributes == get_pagination_attribures(mi.view)
        integer(name) == normalize_data_format("integer", NoneVal,
                             [in |-> "query", name |-> name, description |-> NoneVal])
        truthy(name) == name # NoneVal /\ name # ""
    IN IF app.views[mi.view].variant = "ViewSet" /\ mi.method = "list" /\ attributes.page_size
       THEN base_build_query_parameters(mi)
            \o (IF truthy(attributes.page_query_param)
                THEN <<integer(attributes.page_query_param)>> ELSE <<>>)
            \o (IF truthy(attributes.page_size_query_param)
                THEN <<integer(attributes.page_size_query_param)>> ELSE <<>>)
       ELSE base_build_query_parameters(mi)

\* BaseMethodIntrospector.build_pagination_parameters (<<>> stands for None)
build_pagination_parameters(mi) ==
    LET paginator == app.views[mi.view].paginator
    IN IF ~paginator.present THEN <<>>
       ELSE <<[in |-> "query", name |-> paginator.page,
               description |-> "Page Number", type |-> "integer"]>>
            \o (IF paginator.size # NoneVal /\ paginator.size # ""
                THEN <<[in |-> "query", name |-> paginator.size,
                        description |-> "Page Size", type |-> "integer"]>>
                ELSE <<>>)

\* BaseMethodIntrospector.build_query_parameters_from_django_filters
build_query_parameters_from_django_filters(mi) ==
    LET filters == app.views[mi.view].filters
    IN [i \in 1..Len(filters) |->
           LET parameter == normalize_data_format("string", NoneVal,
                   [in |-> "query", name |-> filters[i].name, description |-> filters[i].label])
           IN IF filters[i].choices # <<>>
              THEN Put(parameter, "enum", filters[i].choices)
              ELSE parameter]

\* BaseMethodIntrospector.get_parameters
get_parameters(mi) ==
    (build_query_parameters(mi) \o build_query_parameters_from_django_filters(mi))
    \o (IF mi.http_method = "GET" THEN build_pagination_parameters(mi) ELSE <<>>)

\* BaseMethodIntrospector.build_body_parameters
build_body_parameters(serializer) ==
    [name |-> get_serializer_name(serializer),
     in |-> "body",
     schema |-> [ref |-> get_serializer_name(serializer)]]

----------------------------------------------------------------------------
(* docgenerator.py: the parameters of one operation *)

\* DocumentationGenerator._get_operation_parameters: the parameters, and the
\* serializers it adds to the class attribute explicit_serializers
operation_parameters_from(found, mi, method) ==
    LET serializer == found.serializer
        in_body == /\ method \in {"POST", "PUT", "PATCH"}
                   /\ serializer # NoneSer
                   /\ app.sers[serializer.cls].in_body
    IN IF found.error # "" THEN [error |-> found.error, parameters |-> <<>>, explicit |-> {}]
       ELSE [error |-> "",
             parameters |-> (IF in_body THEN <<build_body_parameters(serializer)>> ELSE <<>>)
                            \o discover_parameters(get_yaml_parser(mi).object, get_parameters(mi),
                                                   mi.http_method),
             explicit |-> IF in_body THEN {serializer} ELSE {}]

get_operation_parameters(mi, method) ==
    operation_parameters_from(get_request_serializer_class(mi), mi, method)

----------------------------------------------------------------------------
(* Paths.  A path is the sequence of its characters; a prefix test, a cut  *)
(* and the search for `/{name}` work on characters as the code's do.       *)

RECURSIVE JoinChars(_)
JoinChars(cs) == IF cs = <<>> THEN "" ELSE Head(cs) \o JoinChars(Tail(cs))

\* str.startswith
StartsWith(path, prefix) ==
    Len(prefix) <= Len(path) /\ SubSeq(path, 1, Len(prefix)) = prefix

\* utils.extract_base_path, for a base_path that is a string
extract_base_path(path, base_path) ==
    IF StartsWith(path, base_path) THEN SubSeq(path, Len(base_path) + 1, Len(path)) ELSE path

\* the characters in ascending code order, for sorted() on paths
CharOrder ==
    <<"-", ".", "/", "<", ">", "a", "b", "c", "d", "f", "i", "m", "o", "p", "r", "t", "v", "{", "}">>

Ord(c) == CHOOSE i \in 1..Len(CharOrder) : CharOrder[i] = c

RECURSIVE PathLess(_, _)
PathLess(a, b) ==
    IF a = <<>> THEN b # <<>>
    ELSE IF b = <<>> THEN FALSE
    ELSE IF Head(a) = Head(b) THEN PathLess(Tail(a), Tail(b))
    ELSE Ord(Head(a)) < Ord(Head(b))

\* re.findall('/{([^}]*)}', path): the names, scanning from position i
RECURSIVE find_path_names(_, _)
find_path_names(path, i) ==
    IF i + 1 > Len(path) THEN <<>>
    ELSE IF path[i] = "/" /\ path[i + 1] = "{"
            /\ \E j \in (i + 2)..Len(path) : path[j] = "}"
    THEN LET close == CHOOSE j \in (i + 2)..Len(path) :
                          path[j] = "}" /\ \A k \in (i + 2)..(j - 1) : path[k] # "}"
         IN <<JoinChars(SubSeq(path, i + 2, close - 1))>> \o find_path_names(path, close + 1)
    ELSE find_path_names(path, i + 1)

\* BaseMethodIntrospector.build_path_parameters
build_path_parameters(path) ==
    LET url_params == find_path_names(path, 1)
    IN [i \in 1..Len(url_params) |->
           [name |-> url_params[i], type |-> "string", in |-> "path", required |-> TRUE]]

----------------------------------------------------------------------------
(* docgenerator.py: operations.  A generator is [config, config_name]; the *)
(* operation keys summary and security are set by the code and read by no  *)
(* property here, they are left out.  '#/definitions/' + name is           *)
(* [ref |-> name].                                                         *)

\* BaseMethodIntrospector.get_description: the class prose, two spaces and two
\* newlines, the method prose; stripped, newlines turned into spaces
get_description(mi) ==
    LET class_docs == app.views[mi.view].class_doc.text
        method_docs == get_docs(mi).text
    IN IF class_docs = "" THEN method_docs
       ELSE IF method_docs = "" THEN class_docs
       ELSE class_docs \o "    " \o method_docs

\* BaseMethodIntrospector.get_operation_id
get_operation_id(parser) ==
    IF Get(parser.object, "operationId", "") # "" THEN parser.object["operationId"] ELSE NoneVal

\* the pagination envelope of _get_operation_success_response, lines 202-240
pagination_envelope(response_object) ==
    LET leaf(t) == [readOnly |-> TRUE, type |-> t, description |-> ""]
    IN [type |-> "object",
        properties |->
          << [name |-> "next", schema |-> leaf("string")],
             [name |-> "previous", schema |-> leaf("string")],
             [name |-> "count", schema |-> leaf("integer")],
             [name |-> "results",
              schema |-> [readOnly |-> TRUE, type |-> "array", description |-> "",
                          items |-> response_object]],
             [name |-> "page", schema |-> leaf("integer")],
             [name |-> "size", schema |-> leaf("integer")] >>]

\* _get_operation_success_response with the test for DELETE made after the
\* pagination test instead of before it
success_response_from_delete_last(found, doc_parser, mi) ==
    LET response_serializer_name == get_serializer_name(found.serializer)
        operation_method == Lower(mi.http_method)
        success_code == IF operation_method = "post" THEN "201"
                        ELSE IF operation_method = "delete" THEN "204" ELSE "200"
        response_object == IF response_serializer_name # "object"
                           THEN [ref |-> response_serializer_name]
                           ELSE [type |-> response_serializer_name]
    IN IF found.error # "" THEN [error |-> found.error, code |-> "", body |-> EmptyDict]
       ELSE IF response_serializer_name = NoneVal /\ operation_method # "delete"
       THEN [error |-> "TypeError: cannot concatenate 'str' and 'NoneType' objects",
             code |-> "", body |-> EmptyDict]
       ELSE IF response_serializer_name # NoneVal
               /\ (\/ Get(doc_parser.object, "force_pagination", FALSE)
                   \/ (success_code = "200" /\ app.views[mi.view].paginator.present))
       THEN [error |-> "", code |-> success_code,
             body |-> [description |-> "Successful operation",
                       schema |-> pagination_envelope(response_object)]]
       ELSE IF operation_method = "delete"
       THEN [error |-> "", code |-> "204", body |-> [description |-> "Deleted"]]
       ELSE [error |-> "", code |-> success_code,
             body |-> [description |-> "Successful operation", schema |-> response_object]]

\* DocumentationGenerator._get_operation_success_response, given the serializer
\* get_response_serializer_class found
success_response_from(found, doc_parser, mi) ==
    LET response_serializer_name == get_serializer_name(found.serializer)
        operation_method == Lower(mi.http_method)
        success_code == IF operation_method = "post" THEN "201" ELSE "200"
        response_object == IF response_serializer_name # "object"
                           THEN [ref |-> response_serializer_name]
                           ELSE [type |-> response_serializer_name]
    IN IF found.error # "" THEN [error |-> found.error, code |-> "", body |-> EmptyDict]
       ELSE IF operation_method = "delete"
       THEN [error |-> "", code |-> "204", body |-> [description |-> "Deleted"]]
       ELSE IF response_serializer_name = NoneVal
       THEN [error |-> "TypeError: cannot concatenate 'str' and 'NoneType' objects",
             code |-> "", body |-> EmptyDict]
       ELSE IF Get(doc_parser.object, "force_pagination", FALSE)
               \/ (success_code = "200" /\ app.views[mi.view].paginator.present)
       THEN [error |-> "", code |-> success_code,
             body |-> [description |-> "Successful operation",
                       schema |-> pagination_envelope(response_object)]]
       ELSE [error |-> "", code |-> success_code,
             body |-> [description |-> "Successful operation", schema |-> response_object]]

get_operation_success_response(doc_parser, mi) ==
    success_response_from(get_response_serializer_class(mi), doc_parser, mi)

\* YAMLDocstringParser.get_response_messages
RECURSIVE response_messages_from(_, _)
response_messages_from(messages, items) ==
    IF items = <<>> THEN messages
    ELSE LET message == Head(items)
             data == IF Has(message, "schema")
                     THEN [description |-> Get(message, "description", ""), schema |-> message["schema"]]
                     ELSE [description |-> Get(message, "description", "")]
             code == IF Has(message, "code") THEN ToString(message["code"]) ELSE "None"
         IN response_messages_from(Put(messages, code, data), Tail(items))

get_response_messages(object) ==
    response_messages_from(EmptyDict, Get(object, "responseMessages", <<>>))

\* DocumentationGenerator.get_method_introspectors
get_method_introspectors(v) ==
    SelectSeq(view_method_introspectors(v), LAMBDA mi : mi.http_method # "OPTIONS")

\* get_operations with the generated success response written after the
\* responseMessages of the override block instead of before them
operation_from_success_last(acc, mi, gen, doc_parser, params, success) ==
    LET operation_config_name == Get(doc_parser.object, "swagger_config_name", "")
        added == acc.explicit \cup params.explicit
        operation == [method |-> mi.http_method,
                      description |-> get_description(mi),
                      operationId |-> get_operation_id(doc_parser),
                      produces |-> Get(doc_parser.object, "produces", Get(gen.config, "produces", NoneVal)),
                      tags |-> Get(doc_parser.object, "tags", <<>>),
                      parameters |-> params.parameters]
        default_response ==
            IF Get(gen.config, "default_payload_definition", EmptyDict) # EmptyDict
            THEN [default |-> [description |-> "error payload",
                               schema |-> [ref |-> Get(gen.config, "default_payload_definition_name", NoneVal)]]]
            ELSE EmptyDict
        responses == Put(Update(default_response, get_response_messages(doc_parser.object)),
                         success.code, success.body)
    IN IF acc.error # "" THEN acc
       ELSE IF doc_parser.error # "" THEN [acc EXCEPT !.error = doc_parser.error]
       ELSE IF operation_config_name # "" /\ operation_config_name # gen.config_name THEN acc
       ELSE IF params.error # "" THEN [acc EXCEPT !.error = params.error]
       ELSE IF doc_parser.yaml_error
       THEN [acc EXCEPT !.error = "KeyError: 'notes'", !.explicit = added]
       ELSE IF success.error # "" THEN [acc EXCEPT !.error = success.error, !.explicit = added]
       ELSE [error |-> "",
             operations |-> Append(acc.operations, Put(operation, "responses", responses)),
             explicit |-> added]

\* one turn of the loop of DocumentationGenerator.get_operations; acc is
\* [error, operations, explicit]: the exception that left the loop, the operations
\* appended, the serializers added to explicit_serializers so far.  doc_parser,
\* params and success are what get_yaml_parser, _get_operation_parameters and
\* _get_operation_success_response return for mi
operation_from(acc, mi, gen, doc_parser, params, success) ==
    LET operation_config_name == Get(doc_parser.object, "swagger_config_name", "")
        added == acc.explicit \cup params.explicit
        operation == [method |-> mi.http_method,
                      description |-> get_description(mi),
                      operationId |-> get_operation_id(doc_parser),
                      produces |-> Get(doc_parser.object, "produces", Get(gen.config, "produces", NoneVal)),
                      tags |-> Get(doc_parser.object, "tags", <<>>),
                      parameters |-> params.parameters]
        default_response ==
            IF Get(gen.config, "default_payload_definition", EmptyDict) # EmptyDict
            THEN [default |-> [description |-> "error payload",
                               schema |-> [ref |-> Get(gen.config, "default_payload_definition_name", NoneVal)]]]
            ELSE EmptyDict
        responses == Update(Put(default_response, success.code, success.body),
                            get_response_messages(doc_parser.object))
    IN IF acc.error # "" THEN acc
       ELSE IF doc_parser.error # "" THEN [acc EXCEPT !.error = doc_parser.error]
       ELSE IF operation_config_name # "" /\ operation_config_name # gen.config_name THEN acc
       ELSE IF params.error # "" THEN [acc EXCEPT !.error = params.error]
       ELSE IF doc_parser.yaml_error
       THEN [acc EXCEPT !.error = "KeyError: 'notes'", !.explicit = added]
       ELSE IF success.error # "" THEN [acc EXCEPT !.error = success.error, !.explicit = added]
       ELSE [error |-> "",
             operations |-> Append(acc.operations, Put(operation, "responses", responses)),
             explicit |-> added]

get_operation(acc, mi, gen) ==
    operation_from(acc, mi, gen, get_yaml_parser(mi),
                   get_operation_parameters(mi, mi.http_method),
                   get_operation_success_response(get_yaml_parser(mi), mi))

RECURSIVE get_operations_from(_, _, _)
get_operations_from(acc, mis, gen) ==
    IF mis = <<>> THEN acc
    ELSE get_operations_from(get_operation(acc, Head(mis), gen), Tail(mis), gen)

\* DocumentationGenerator.get_operations
get_operations(v, gen) ==
    get_operations_from([error |-> "", operations |-> <<>>, explicit |-> {}],
                        get_method_introspectors(v), gen)

\* DocumentationGenerator.fill_path_parameters; the value of global_parametters_docs
\* is the GLOBAL_PARAMETERS dictionary of the module it names
fill_path_parameters(path_parameters, gen) ==
    LET global_parameters == Get(gen.config, "global_parametters_docs", EmptyDict)
    IN [i \in 1..Len(path_parameters) |->
           IF Has(global_parameters, path_parameters[i]["name"])
           THEN Update(path_parameters[i], global_parameters[path_parameters[i]["name"]])
           ELSE path_parameters[i]]

\* DocumentationGenerator.get_path_item: the item is [operations, parameters],
\* operations by lower-cased verb; no operation gives present = FALSE
path_item_from(got, endpoint, gen) ==
    LET verbs == {Lower(got.operations[i].method) : i \in 1..Len(got.operations)}
        last(verb) == CHOOSE i \in 1..Len(got.operations) :
                          /\ Lower(got.operations[i].method) = verb
                          /\ \A j \in (i + 1)..Len(got.operations) :
                                Lower(got.operations[j].method) # verb
    IN [error |-> got.error,
        explicit |-> got.explicit,
        present |-> got.error = "" /\ got.operations # <<>>,
        item |-> [operations |-> [verb \in verbs |-> Del(got.operations[last(verb)], "method")],
                  parameters |-> fill_path_parameters(build_path_parameters(endpoint.path), gen)]]

get_path_item(endpoint, gen) ==
    path_item_from(get_operations(endpoint.callback, gen), endpoint, gen)

\* sorted(paths_dict.items()): insertion of one (path, item) into a sorted list,
\* an equal path is overwritten
RECURSIVE paths_insert(_, _)
paths_insert(sorted, entry) ==
    IF sorted = <<>> THEN <<entry>>
    ELSE IF Head(sorted).path = entry.path THEN <<entry>> \o Tail(sorted)
    ELSE IF PathLess(entry.path, Head(sorted).path) THEN <<entry>> \o sorted
    ELSE <<Head(sorted)>> \o paths_insert(Tail(sorted), entry)

\* one turn of the loop of DocumentationGenerator.get_paths, lines 68-70, for the
\* path item `got` of the endpoint; acc is [error, paths, explicit]
with_path_item(acc, endpoint, got) ==
    [error |-> got.error,
     paths |-> IF got.present
               THEN paths_insert(acc.paths, [path |-> endpoint.path, item |-> got.item])
               ELSE acc.paths,
     explicit |-> acc.explicit \cup got.explicit]

\* line 67: the endpoint with the base path cut from its path
without_base_path(endpoint, gen) ==
    [endpoint EXCEPT !.path = extract_base_path(@, gen.config["basePath"])]

\* the loop of DocumentationGenerator.get_paths
RECURSIVE get_paths_from(_, _, _)
get_paths_from(acc, endpoints_conf, gen) ==
    IF endpoints_conf = <<>> \/ acc.error # "" THEN acc
    ELSE IF ~Has(gen.config, "basePath")
    THEN [acc EXCEPT !.error = "TypeError: startswith first arg must be str, not NoneType"]
    ELSE get_paths_from(
             with_path_item(acc, without_base_path(Head(endpoints_conf), gen),
                            get_path_item(without_base_path(Head(endpoints_conf), gen), gen)),
             Tail(endpoints_conf), gen)

\* DocumentationGenerator.get_paths: the sorted paths, and what the build added
\* to explicit_serializers on the way
get_paths(endpoints_conf, gen) ==
    get_paths_from([error |-> "", paths |-> <<>>, explicit |-> {}], endpoints_conf, gen)

----------------------------------------------------------------------------
(* docgenerator.py: type definitions.  A serializer object is [cls, inst]; *)
(* an instance is named by where it was created: the class and field       *)
(* names on the way from the pass that made it.  The field attributes      *)
(* default, min_value, max_value and is_documented are not modelled.       *)

INTROSPECTOR_ENUMS == <<"choice", "multiple choice">>

\* introspectors.get_data_type
get_data_type(field) ==
    CASE field.cls = "BooleanField" -> <<"boolean", "boolean">>
      [] field.cls \in {"JSONField", "ModelField", "DictField"} -> <<"object", "object">>
      [] field.cls = "ListField" -> <<"array", "array">>
      [] field.cls = "NullBooleanField" -> <<"boolean", "boolean">>
      [] field.cls = "ChoiceField" ->
            IF Get(field, "int_choices", FALSE) THEN <<"integer", "int64">> ELSE <<"string", "string">>
      [] field.cls = "DateField" -> <<"string", "date">>
      [] field.cls = "DateTimeField" -> <<"string", "date-time">>
      [] field.cls = "IntegerField" -> <<"integer", "int64">>
      [] field.cls = "FloatField" -> <<"number", "float">>
      [] field.cls = "HiddenField" -> <<"hidden", "hidden">>
      [] OTHER -> <<"string", "string">>

\* isinstance(field, BaseSerializer), and has_many of _get_serializer_fields
IsSerializerField(field) == field.cls \in {"Serializer", "ListSerializer"}

HasMany(field) == field.cls \in {"ListSerializer", "ManyRelatedField"}

\* the body of the loop of _get_serializer_fields, lines 425-501: the schema of one field
field_schema(field) ==
    LET data_type == get_data_type(field)[1]
        data_format == get_data_type(field)[2]
        f0 == [description |-> field.help_text, type |-> data_type,
               format |-> data_format, readOnly |-> field.read_only]
        f1 == IF f0["type"] = f0["format"] THEN Del(f0, "format") ELSE f0
        f2 == IF data_type \in Range(INTROSPECTOR_ENUMS)
              THEN Put(f1, "enum", Get(field, "choices", <<>>)) ELSE f1
        name == get_serializer_name(ClassOf(field.target))
        field_serializer == IF field.write_only THEN "Write" \o name ELSE name
        nested == IF ~HasMany(field)
                  THEN Put(Del(f2, "type"), "ref", field_serializer)
                  ELSE Put(Put(f2, "type", "array"), "items", [ref |-> field_serializer])
        related == Put(Put(f2, "type", "array"), "items", [type |-> "string"])
    IN IF IsSerializerField(field) THEN nested
       ELSE IF HasMany(field) THEN related
       ELSE IF field.cls = "ListField"
       THEN Put(Put(f2, "type", "array"), "items", [type |-> get_data_type(field.child)[1]])
       ELSE f2

\* DocumentationGenerator._get_serializer_fields on class c: fields is the
\* ordered dictionary as a sequence of [name, schema]
get_serializer_fields(c) ==
    LET fields == app.sers[c].fields
        shown == SelectSeq(fields, LAMBDA fd : get_data_type(fd)[1] # "hidden")
    IN [fields |-> [i \in 1..Len(shown) |-> [name |-> shown[i].name, schema |-> field_schema(shown[i])]],
        required |-> {fields[i].name : i \in {j \in 1..Len(fields) : fields[j].required}},
        write_only |-> {fields[i].name : i \in {j \in 1..Len(fields) : fields[j].write_only}},
        read_only |-> {fields[i].name : i \in {j \in 1..Len(fields) : fields[j].read_only}}]

\* get_definition without the test `k not in data['write_only']`
get_definition_with_write_only(c) ==
    LET data == get_serializer_fields(c)
        properties == data.fields
        required_properties == SelectSeq([i \in 1..Len(properties) |-> properties[i].name],
                                         LAMBDA n : n \in data.required)
        definition == [properties |-> properties, type |-> "object"]
    IN IF app.sers[c].child # NoneVal
       THEN [type |-> "array", items |-> [ref |-> get_serializer_name(ClassOf(app.sers[c].child))]]
       ELSE IF required_properties # <<>>
       THEN Put(definition, "required", required_properties)
       ELSE definition

\* DocumentationGenerator.get_definition
get_definition(c) ==
    LET data == get_serializer_fields(c)
        properties == SelectSeq(data.fields, LAMBDA p : p.name \notin data.write_only)
        required_properties == SelectSeq([i \in 1..Len(properties) |-> properties[i].name],
                                         LAMBDA n : n \in data.required)
        definition == [properties |-> properties, type |-> "object"]
    IN IF app.sers[c].child # NoneVal
       THEN [type |-> "array", items |-> [ref |-> get_serializer_name(ClassOf(app.sers[c].child))]]
       ELSE IF required_properties # <<>>
       THEN Put(definition, "required", required_properties)
       ELSE definition

\* YAMLDocstringParser.get_extra_serializer_classes: the classes the `pytype`
\* entries of the parameters name
RECURSIVE extra_serializer_classes_from(_, _)
extra_serializer_classes_from(acc, params) ==
    IF params = <<>> \/ acc.error # "" THEN acc
    ELSE IF ~Has(Head(params), "pytype") THEN extra_serializer_classes_from(acc, Tail(params))
    ELSE extra_serializer_classes_from(
             [error |-> load_class(Head(params), "pytype").error,
              set |-> acc.set \cup ({load_class(Head(params), "pytype").serializer} \ {NoneSer})],
             Tail(params))

get_extra_serializer_classes(mi) ==
    extra_serializer_classes_from([error |-> "", set |-> {}],
                                  Get(get_yaml_parser(mi).object, "parameters", <<>>))

\* the loops of DocumentationGenerator._get_serializer_set, over the method
\* introspectors of every endpoint, OPTIONS included
with_serializers(acc, found, extras) ==
    IF found.error # "" THEN [acc EXCEPT !.error = found.error]
    ELSE IF extras.error # "" THEN [acc EXCEPT !.error = extras.error]
    ELSE [acc EXCEPT !.set = (@ \cup ({found.serializer} \ {NoneSer})) \cup extras.set]

RECURSIVE serializer_set_from(_, _)
serializer_set_from(acc, mis) ==
    IF mis = <<>> \/ acc.error # "" THEN acc
    ELSE serializer_set_from(
             with_serializers(acc, get_response_serializer_class(Head(mis)),
                              get_extra_serializer_classes(Head(mis))),
             Tail(mis))

get_serializer_set(endpoints_conf) ==
    serializer_set_from([error |-> "", set |-> {}],
        Concat([i \in 1..Len(endpoints_conf) |-> view_method_introspectors(endpoints_conf[i].callback)]))

\* iteration over a Python set: some order
RECURSIVE SetToSeq(_)
SetToSeq(S) ==
    IF S = {} THEN <<>>
    ELSE LET x == CHOOSE y \in S : TRUE IN <<x>> \o SetToSeq(S \ {x})

RECURSIVE find_field_serializers(_, _, _, _)
RECURSIVE find_in_fields(_, _, _, _, _, _)
RECURSIVE find_in_serializers(_, _, _, _, _)

\* the field object (the ListSerializer itself, for one) and get_thing(field,
\* lambda f: f), made at `here`
FieldObject(field, here) ==
    [cls |-> IF field.cls = "ListSerializer" THEN "ListSerializer" ELSE field.target,
     inst |-> here]

Thing(field, here) == [cls |-> field.target, inst |-> here]

\* lines 389-393: the recursive call for one serializer field
find_under(field, added, found_serializers, depth, here) ==
    IF FieldObject(field, here) \notin found_serializers
    THEN find_field_serializers(<<field.target>>, added, depth + 1, here)
    ELSE [error |-> "", set |-> {}]

\* the rest of the inner loop after the recursive call returned `inner`
find_after(inner, c, i, added, found_serializers, depth, at) ==
    IF inner.error # "" THEN inner
    ELSE find_in_fields(c, i + 1, added \cup inner.set, found_serializers, depth, at)

\* the inner loop of _find_field_serializers, lines 386-393, from field i of
\* the instance of class c that `serializer()` made at `at`
find_in_fields(c, i, serializers_set, found_serializers, depth, at) ==
    LET field == app.sers[c].fields[i]
        here == at \o <<c, field.name>>
        added == serializers_set \cup {Thing(field, here)}
    IN IF i > Len(app.sers[c].fields) THEN [error |-> "", set |-> serializers_set]
       ELSE IF ~IsSerializerField(field)
       THEN find_in_fields(c, i + 1, serializers_set, found_serializers, depth, at)
       ELSE find_after(find_under(field, added, found_serializers, depth, here),
                       c, i, added, found_serializers, depth, at)

\* the outer loop of _find_field_serializers, line 384, after the fields of one
\* serializer gave `got`
find_next(got, serializers, found_serializers, depth, at) ==
    IF got.error # "" THEN got
    ELSE find_in_serializers(Tail(serializers), got.set, found_serializers, depth, at)

find_in_serializers(serializers, serializers_set, found_serializers, depth, at) ==
    IF serializers = <<>> THEN [error |-> "", set |-> serializers_set]
    ELSE find_next(find_in_fields(Head(serializers), 1, serializers_set, found_serializers, depth, at),
                   serializers, found_serializers, depth, at)

\* DocumentationGenerator._find_field_serializers, `depth` calls deep: the
\* interpreter raises when the calls nest deeper than its recursion limit
find_field_serializers(serializers, found_serializers, depth, at) ==
    IF depth > RecursionLimit
    THEN [error |-> "RuntimeError: maximum recursion depth exceeded", set |-> {}]
    ELSE find_in_serializers(serializers, {}, found_serializers, depth, at)

\* DocumentationGenerator.get_definitions, given the two class attributes.
\* Two serializers of one name: the model keeps one of them.
\* lines 306-316: the models of the classes of `serializers` and of their Meta.child
models_of(classes) ==
    [k \in {get_serializer_name(ClassOf(c)) : c \in classes} |->
        get_definition(CHOOSE c \in classes : get_serializer_name(ClassOf(c)) = k)]

with_children(classes) == classes \cup ({app.sers[c].child : c \in classes} \ {NoneVal})

\* lines 302-320, given what _find_field_serializers returned for `declared`
definitions_found(declared, found, response_types) ==
    IF found.error # "" THEN [error |-> found.error, definitions |-> EmptyDict]
    ELSE [error |-> "",
          definitions |-> Update(models_of(with_children({s.cls : s \in declared \cup found.set})),
                                 response_types)]

\* lines 301-320, given what _get_serializer_set returned
definitions_from(base, explicit, response_types) ==
    IF base.error # "" THEN [error |-> base.error, definitions |-> EmptyDict]
    ELSE definitions_found(
             base.set \cup explicit,
             find_field_serializers(SetToSeq({s.cls : s \in base.set \cup explicit}), {}, 1, <<>>),
             response_types)

\* get_definitions without line 301, serializers.update(self.explicit_serializers)
get_definitions_without_explicit(endpoints_conf, explicit, response_types) ==
    definitions_from(get_serializer_set(endpoints_conf), {}, response_types)

get_definitions(endpoints_conf, explicit, response_types) ==
    definitions_from(get_serializer_set(endpoints_conf), explicit, response_types)

----------------------------------------------------------------------------
(* config.py, urlparser.py, views.py: the document endpoint *)

\* SwaggerConfig.DEFAULT_SWAGGER_SETTINGS
DEFAULT_SWAGGER_SETTINGS ==
    [exclude_namespaces |-> <<>>,
     exclude_module_paths |-> <<>>,
     exclude_url_patterns |-> <<>>,
     exclude_url_patterns_names |-> <<>>,
     include_module_paths |-> <<>>,
     requires_authentication |-> FALSE,
     requires_superuser |-> FALSE,
     base_path |-> <<>>]

\* SwaggerConfig.get_config lets every known name through
get_config_any_name(config_name) ==
    LET name == IF config_name = NoneVal \/ config_name = "" THEN "default" ELSE config_name
        global_settings == Update(DEFAULT_SWAGGER_SETTINGS, app.global_settings)
    IN [error |-> "",
        config |-> Update(global_settings, Get(app.local_settings, name, EmptyDict))]

\* SwaggerConfig.__init__ and get_config
get_config(config_name) ==
    LET name == IF config_name = NoneVal \/ config_name = "" THEN "default" ELSE config_name
        global_settings == Update(DEFAULT_SWAGGER_SETTINGS, app.global_settings)
    IN IF name \notin DOMAIN app.local_settings
       THEN [error |-> "Exception: " \o name \o " swagger settings not defined", config |-> EmptyDict]
       ELSE [error |-> "", config |-> Update(global_settings, app.local_settings[name])]

\* Swagger2JSONView.has_permission with the superuser test dropped
has_permission_authentication_only(config, user) ==
    IF config["requires_authentication"] /\ ~user.is_authenticated THEN FALSE
    ELSE TRUE

\* Swagger2JSONView.has_permission
has_permission(config, user) ==
    IF config["requires_superuser"] /\ ~user.is_superuser THEN FALSE
    ELSE IF config["requires_authentication"] /\ ~user.is_authenticated THEN FALSE
    ELSE TRUE

\* `sub in path` on strings
Contains(path, sub) ==
    \E i \in 0..(Len(path) - Len(sub)) : SubSeq(path, i + 1, i + Len(sub)) = sub

\* str.replace('<', '{').replace('>', '}')
replace_brackets(path) ==
    [i \in 1..Len(path) |-> IF path[i] = "<" THEN "{" ELSE IF path[i] = ">" THEN "}" ELSE path[i]]

\* django's simplify_regex on a pattern whose groups are already written
\* <name> and whose anchors are dropped: the leading slash
simplify_regex(pattern) ==
    IF pattern # <<>> /\ Head(pattern) = "/" THEN pattern ELSE <<"/">> \o pattern

\* UrlParser.__assemble_endpoint_data__; present = FALSE stands for None
assemble_endpoint_data(pattern, prefix) ==
    LET path == replace_brackets(simplify_regex(prefix \o pattern.regex))
    IN [present |-> /\ pattern.callback # NoneVal
                    /\ ~pattern.router_root
                    /\ ~Contains(path, <<".", "{", "f", "o", "r", "m", "a", "t", "}">>),
        endpoint |-> [path |-> path, name |-> pattern.name, callback |-> pattern.callback]]

\* UrlParser.__flatten_patterns_tree__
RECURSIVE flatten_patterns_tree(_, _, _)
flatten_patterns_tree(patterns, prefix, config) ==
    IF patterns = <<>> THEN <<>>
    ELSE LET pattern == Head(patterns)
             endpoint_data == assemble_endpoint_data(pattern, prefix)
             rest == flatten_patterns_tree(Tail(patterns), prefix, config)
         IN IF pattern.kind = "pattern"
            THEN IF \/ ~endpoint_data.present
                    \/ \E i \in 1..Len(config["exclude_url_patterns"]) :
                          Contains(endpoint_data.endpoint.path, config["exclude_url_patterns"][i])
                    \/ pattern.name \in Range(config["exclude_url_patterns_names"])
                 THEN rest
                 ELSE <<endpoint_data.endpoint>> \o rest
            ELSE IF \/ /\ config["include_module_paths"] # <<>>
                       /\ pattern.module \notin Range(config["include_module_paths"])
                    \/ pattern.module \in Range(config["exclude_module_paths"])
                    \/ /\ pattern.namespace # NoneVal
                       /\ pattern.namespace \in Range(config["exclude_namespaces"])
                 THEN rest
                 ELSE flatten_patterns_tree(pattern.url_patterns, prefix \o pattern.regex, config) \o rest

\* UrlParser.get_apis
get_apis(config) == flatten_patterns_tree(app.urlpatterns, <<>>, config)

----------------------------------------------------------------------------
(* Parameter resolution on its own: one method introspector of one handler, *)
(* its docstrings and override block drawn from small sets.                 *)

QLine(n) == [name |-> n, description |-> "reflected " \o n]

ClassQLine(n) == [name |-> n, description |-> "class " \o n]

\* what reflection finds: the `--` lines of the method and class docstrings,
\* the paginator, the filters
ReflectedSources ==
    { [mq |-> <<>>, cq |-> <<>>, paginator |-> NoPaginator, filters |-> <<>>],
      [mq |-> <<QLine("q")>>, cq |-> <<>>, paginator |-> NoPaginator, filters |-> <<>>],
      [mq |-> <<QLine("q")>>, cq |-> <<ClassQLine("q")>>, paginator |-> NoPaginator, filters |-> <<>>],
      [mq |-> <<QLine("q"), QLine("r")>>, cq |-> <<>>, paginator |-> NoPaginator, filters |-> <<>>],
      [mq |-> <<QLine("r")>>, cq |-> <<ClassQLine("q")>>, paginator |-> NoPaginator, filters |-> <<>>],
      [mq |-> <<>>, cq |-> <<>>,
       paginator |-> [present |-> TRUE, page |-> "page", size |-> "size"], filters |-> <<>>],
      [mq |-> <<QLine("page")>>, cq |-> <<>>,
       paginator |-> [present |-> TRUE, page |-> "page", size |-> NoneVal], filters |-> <<>>],
      [mq |-> <<QLine("r")>>, cq |-> <<>>, paginator |-> NoPaginator,
       filters |-> <<[name |-> "q", label |-> "filter q", choices |-> <<"a", "b">>]>>] }

\* one entry of the override block's `parameters` list
DeclaredFields ==
    { [name |-> "q", description |-> "declared q", in |-> "query", required |-> TRUE],
      [name |-> "r", description |-> "declared r", in |-> "query", required |-> TRUE],
      [name |-> "q", description |-> "declared q", in |-> "path", required |-> TRUE],
      [name |-> "q", description |-> "declared q", in |-> "query"],
      [name |-> "q", description |-> "declared q"] }

Strategies ==
    { EmptyDict,
      [parameters_strategy |-> [kind |-> "str", str |-> "replace"]],
      [parameters_strategy |-> [kind |-> "str", str |-> "overwrite"]],
      [parameters_strategy |-> [kind |-> "map", map |-> [query |-> "replace"]]] }

Omits == { EmptyDict, [omit_parameters |-> <<"query">>], [omit_parameters |-> <<"body">>] }

\* the verb, and whether the handler's serializer asks for the body (Meta._in)
VerbAndBody ==
    { [verb |-> "GET", in_body |-> FALSE], [verb |-> "PATCH", in_body |-> FALSE],
      [verb |-> "PATCH", in_body |-> TRUE], [verb |-> "POST", in_body |-> TRUE] }

PlainSerializer(name, in_body) ==
    [name |-> name, fields |-> <<>>, child |-> NoneVal, in_body |-> in_body, swagger_name |-> ""]

ParamApp(vb, src, object) ==
    [views |-> [v \in {"V"} |->
        [variant |-> "APIView",
         allowed_methods |-> <<vb.verb>>,
         actions |-> <<>>,
         list_mixin |-> FALSE,
         serializer_class |-> "A",
         paginator |-> src.paginator,
         filters |-> src.filters,
         class_doc |-> [NoDoc EXCEPT !.qlines = src.cq],
         method_docs |-> (Lower(vb.verb) :>
             [marker |-> TRUE, valid |-> TRUE, obj |-> object, qlines |-> src.mq, text |-> ""])]],
     sers |-> [c \in {"A"} |-> PlainSerializer("ASerializer", vb.in_body)],
     urlpatterns |-> <<>>,
     global_settings |-> EmptyDict,
     local_settings |-> EmptyDict]

IdleCall == [pc |-> "idle", mi |-> [view |-> "", method |-> "", http_method |-> ""]]

InitParams ==
    /\ \E vb \in VerbAndBody, src \in ReflectedSources,
          decl \in SeqsUpTo(DeclaredFields, MaxDeclared), st \in Strategies, om \in Omits :
          /\ app = ParamApp(vb, src,
                     Update(Update(IF decl = <<>> THEN EmptyDict ELSE [parameters |-> decl], st), om))
          /\ pcall = [pc |-> "call", mi |-> [view |-> "V", method |-> vb.verb, http_method |-> vb.verb]]
    /\ explicit_serializers = {}
    /\ explicit_response_types = EmptyDict
    /\ req = EmptyDict
    /\ parameters = <<>>
    /\ docstring = NoText

\* get_operations, line 143: the parameters of the operation being built
ResolveParameters ==
    /\ pcall.pc = "call"
    /\ LET got == get_operation_parameters(pcall.mi, pcall.mi.http_method)
       IN /\ parameters' = got.parameters
          /\ explicit_serializers' = explicit_serializers \cup got.explicit
          /\ pcall' = [pcall EXCEPT !.pc = IF got.error = "" THEN "done" ELSE "raised"]
    /\ UNCHANGED <<app, explicit_response_types, req, docstring>>

NextParams == ResolveParameters

SpecParams == InitParams /\ [][NextParams]_vars

----------------------------------------------------------------------------
(* The two readers of one documentation text: get_description, which shows *)
(* what strip_yaml_from_docstring keeps, and YAMLDocstringParser, which     *)
(* parses what load_obj_from_docstring cuts.  The text is given as         *)
(* trim_docstring(docstring).split('\n').                                   *)

MaxLines == 3

\* lines: prose, the marker, the marker indented, the marker followed by other
\* characters, a key of the block, a blank line
Lines ==
    { <<"a">>, <<"-", "-", "-">>, <<" ", "-", "-", "-">>, <<"-", "-", "-", "x">>,
      <<"t">>, <<>> }

\* trim_docstring leaves no blank line at either end and no indentation on
\* the first line; the empty text is one empty line
Trimmed(split_lines) ==
    \/ split_lines = << <<>> >>
    \/ /\ split_lines # <<>>
       /\ Head(split_lines) # <<>> /\ Head(Head(split_lines)) # " "
       /\ split_lines[Len(split_lines)] # <<>>

Texts == {split_lines \in SeqsUpTo(Lines, MaxLines) : Trimmed(split_lines)}

InitDocs ==
    /\ docstring \in {[NoText EXCEPT !.pc = "text", !.split_lines = split_lines] :
                          split_lines \in Texts}
    /\ app = ParamApp([verb |-> "GET", in_body |-> FALSE],
                      [paginator |-> NoPaginator, filters |-> <<>>, cq |-> <<>>, mq |-> <<>>],
                      EmptyDict)
    /\ explicit_serializers = {}
    /\ explicit_response_types = EmptyDict
    /\ req = EmptyDict
    /\ pcall = IdleCall
    /\ parameters = <<>>

\* get_description, lines 230-242: the text without its override block
StripYaml ==
    /\ docstring.pc = "text"
    /\ docstring' = [docstring EXCEPT !.pc = "stripped",
                         !.description = strip_yaml_from_docstring(docstring.split_lines)]
    /\ UNCHANGED <<app, explicit_serializers, explicit_response_types, req, pcall, parameters>>

\* YAMLDocstringParser.__init__: the override block cut from the same text
LoadObj ==
    /\ docstring.pc = "stripped"
    /\ docstring' = [docstring EXCEPT !.pc = "loaded",
                         !.yaml_string = yaml_string_lines(docstring.split_lines)]
    /\ UNCHANGED <<app, explicit_serializers, explicit_response_types, req, pcall, parameters>>

NextDocs == StripYaml \/ LoadObj

SpecDocs == InitDocs /\ [][NextDocs]_vars

\* C27: the lines shown as description are exactly the lines before the line
\* where the parsed override block starts: put together again, description
\* and block are the text, with no line in both and none in neither.
C27_DescriptionAndBlockSplitTheText ==
    docstring.pc = "loaded" =>
        docstring.description \o docstring.yaml_string = docstring.split_lines


----------------------------------------------------------------------------
(* Properties of parameter resolution (SpecParams) *)

Resolved == pcall.pc = "done"

\* the override block in force for the resolved introspector
CallObject == get_yaml_parser(pcall.mi).object

\* the declared parameters, and the reflected ones after they took the
\* location of their declared namesake
CallDeclared == get_yaml_parameters(CallObject)

CallReflected ==
    LET found == get_parameters(pcall.mi)
    IN [i \in 1..Len(found) |-> relocate(found[i], CallDeclared)]

\* the body parameter built from the request serializer is the one with a schema
IsBuiltBody(p) == Has(p, "schema")

\* what discover_parameters contributed to the operation's parameters
Discovered == SelectSeq(parameters, LAMBDA p : ~IsBuiltBody(p))

At(params, loc) == SelectSeq(params, LAMBDA p : p["in"] = loc)

\* the strategy the override block sets for a location
ConfiguredStrategy(loc) ==
    IF ~Has(CallObject, "parameters_strategy") THEN "merge"
    ELSE IF CallObject["parameters_strategy"].kind = "str"
         THEN CallObject["parameters_strategy"].str
         ELSE Get(CallObject["parameters_strategy"].map, loc, "merge")

Omitted(loc) == Has(CallObject, "omit_parameters") /\ loc \in Range(CallObject["omit_parameters"])

Locations == Range(PARAM_TYPES)

\* equality of parameter lists up to the `required` a PATCH operation forces
SameButRequired(ps, qs) ==
    /\ Len(ps) = Len(qs)
    /\ \A i \in 1..Len(ps) :
          IF pcall.mi.http_method = "PATCH" /\ ps[i]["in"] # "path"
          THEN Del(ps[i], "required") = Del(qs[i], "required")
          ELSE ps[i] = qs[i]

LastNamed(params, n) ==
    params[CHOOSE i \in 1..Len(params) :
              params[i]["name"] = n /\ \A j \in 1..Len(params) : params[j]["name"] = n => j <= i]

Names(params) == {params[i]["name"] : i \in 1..Len(params)}

C4_MergeKeepsEveryReflectedPosition ==
    Resolved =>
        \A loc \in Locations :
            (~Omitted(loc) /\ ConfiguredStrategy(loc) # "replace") =>
                LET R == At(CallReflected, loc)
                    D == At(CallDeclared, loc)
                    replaced == [i \in 1..Len(R) |->
                                    IF R[i]["name"] \in Names(D)
                                    THEN LastNamed(D, R[i]["name"]) ELSE R[i]]
                    appended == SelectSeq(D, LAMBDA d : d["name"] \notin Names(R))
                IN SameButRequired(At(Discovered, loc), replaced \o appended)

\* C4 amended: under merge the resolved parameters of a location hold each
\* name of (reflected followed by declared) exactly once, in the order of the
\* names' first occurrences there, and each carries the last entry of that
\* name: the declared one when the name is declared, else the last reflected.
C4_MergeOncePerName ==
    Resolved =>
        \A loc \in Locations :
            (~Omitted(loc) /\ ConfiguredStrategy(loc) # "replace") =>
                LET chain == At(CallReflected, loc) \o At(CallDeclared, loc)
                    firsts == SelectSeq([i \in 1..Len(chain) |-> [at |-> i, item |-> chain[i]]],
                                  LAMBDA e : \A j \in 1..(e.at - 1) :
                                                 chain[j]["name"] # e.item["name"])
                    expected == [k \in 1..Len(firsts) |-> LastNamed(chain, firsts[k].item["name"])]
                IN SameButRequired(At(Discovered, loc), expected)

\* a reflected and a declared parameter of one name meet in one location and
\* the single resolved entry carries the declaration
C4_Witness ==
    /\ Resolved
    /\ ~Omitted("query") /\ ConfiguredStrategy("query") = "overwrite"
    /\ \E i \in 1..Len(CallReflected), j \in 1..Len(CallDeclared) :
          /\ CallReflected[i]["in"] = "query" /\ CallDeclared[j]["in"] = "query"
          /\ CallReflected[i]["name"] = "q" /\ CallDeclared[j]["name"] = "q"
    /\ \E i \in 1..Len(CallReflected) :
          CallReflected[i]["in"] = "query" /\ CallReflected[i]["name"] = "r"
    /\ Len(At(Discovered, "query")) = 2
    /\ At(Discovered, "query")[1]["description"] = "declared q"

RawReflected == get_parameters(pcall.mi)

\* C16 as stated: when a declared parameter has the name of a reflected one and
\* another location, every resolved parameter of that name is at that declared
\* location, none at the location the parameter was reflected with.
C16_RelocatedOnlyAtThatDeclaredLocation ==
    Resolved =>
        \A i \in 1..Len(RawReflected), j \in 1..Len(CallDeclared) :
            (/\ CallDeclared[j]["name"] = RawReflected[i]["name"]
             /\ CallDeclared[j]["in"] # RawReflected[i]["in"]) =>
                \A k \in 1..Len(Discovered) :
                    Discovered[k]["name"] = RawReflected[i]["name"] =>
                        Discovered[k]["in"] = CallDeclared[j]["in"]

\* C16: when a reflected parameter has declared namesakes, every resolved
\* parameter of that name is at a location one of the namesakes declares, so the
\* name is at the location it was reflected with only if a namesake declares
\* that location too; the resolved entries of the name are declared ones.
C16_RelocatedOnlyWhereDeclared ==
    Resolved =>
        \A i \in 1..Len(RawReflected) :
            (\E j \in 1..Len(CallDeclared) : CallDeclared[j]["name"] = RawReflected[i]["name"]) =>
                \A k \in 1..Len(Discovered) :
                    Discovered[k]["name"] = RawReflected[i]["name"] =>
                        \E j \in 1..Len(CallDeclared) :
                            /\ CallDeclared[j]["name"] = Discovered[k]["name"]
                            /\ CallDeclared[j]["in"] = Discovered[k]["in"]
                            /\ SameButRequired(<<Discovered[k]>>, <<CallDeclared[j]>>)

C16_Witness ==
    /\ Resolved
    /\ ~Omitted("path") /\ ~Omitted("query")
    /\ \E i \in 1..Len(RawReflected) :
          RawReflected[i]["name"] = "q" /\ RawReflected[i]["in"] = "query"
    /\ Len(CallDeclared) = 1
    /\ CallDeclared[1]["name"] = "q" /\ CallDeclared[1]["in"] = "path"
    /\ \E k \in 1..Len(Discovered) : Discovered[k]["name"] = "q" /\ Discovered[k]["in"] = "path"
    /\ \A k \in 1..Len(Discovered) : Discovered[k]["name"] = "q" => Discovered[k]["in"] # "query"

\* C17: no parameter of the operation, reflected, declared or built from the
\* request DTO, is at a location the override block lists in omit_parameters.
C17_NoParameterAtOmittedLocation ==
    Resolved => \A i \in 1..Len(parameters) : ~Omitted(parameters[i]["in"])

\* C18: no two parameters of the operation have the same location and name.
C18_UniqueLocationAndName ==
    Resolved =>
        \A i, j \in 1..Len(parameters) :
            (/\ parameters[i]["in"] = parameters[j]["in"]
             /\ parameters[i]["name"] = parameters[j]["name"]) => i = j

----------------------------------------------------------------------------
(* The document endpoint: projects it is installed in                      *)

Chars(s) ==
    CASE s = "/" -> <<"/">>
      [] s = "/v" -> <<"/", "v">>
      [] s = "v/" -> <<"v", "/">>
      [] s = "a" -> <<"a">>
      [] s = "b/<id>" -> <<"b", "/", "<", "i", "d", ">">>
      [] s = "c" -> <<"c">>
      [] s = "/b" -> <<"/", "b">>
      [] s = "a.<format>" -> <<"a", ".", "<", "f", "o", "r", "m", "a", "t", ">">>
      [] s = "b/<id>-<c>" -> <<"b", "/", "<", "i", "d", ">", "-", "<", "c", ">">>
      [] s = "<c>/b/<id>" -> <<"<", "c", ">", "/", "b", "/", "<", "i", "d", ">">>

Field(name, cls, target) ==
    [name |-> name, cls |-> cls, target |-> target, write_only |-> FALSE,
     read_only |-> FALSE, required |-> TRUE, help_text |-> ""]

\* a ChoiceField: choices are the keys of field.choices, in order
ChoiceField(name, choices, int_choices) ==
    [name |-> name, cls |-> "ChoiceField", target |-> NoneVal, write_only |-> FALSE,
     read_only |-> FALSE, required |-> TRUE, help_text |-> "",
     choices |-> choices, int_choices |-> int_choices]

Ser(name, fields) ==
    [name |-> name, fields |-> fields, child |-> NoneVal, in_body |-> FALSE, swagger_name |-> ""]

PlainView(verbs, serializer_class) ==
    [variant |-> "APIView", allowed_methods |-> verbs, actions |-> <<>>, list_mixin |-> FALSE,
     serializer_class |-> serializer_class, paginator |-> NoPaginator, filters |-> <<>>,
     class_doc |-> NoDoc, method_docs |-> EmptyDict]

Yaml(object) == [marker |-> TRUE, valid |-> TRUE, obj |-> object, qlines |-> <<>>, text |-> ""]

BadYaml == [marker |-> TRUE, valid |-> FALSE, obj |-> EmptyDict, qlines |-> <<>>, text |-> "about"]

Pattern(regex, name, callback) ==
    [kind |-> "pattern", regex |-> Chars(regex), name |-> name, callback |-> callback,
     router_root |-> FALSE]

Resolver(regex, module, url_patterns) ==
    [kind |-> "resolver", regex |-> Chars(regex), module |-> module, namespace |-> NoneVal,
     url_patterns |-> url_patterns]

Open == [basePath |-> Chars("/v")]

\* one handler V at /v/a, its serializers, and the settings
Project(view, sers, global_settings, local_settings) ==
    [views |-> [v \in {"V"} |-> view],
     sers |-> sers,
     urlpatterns |-> <<Resolver("v/", "products.urls", <<Pattern("a", "a", "V")>>)>>,
     global_settings |-> global_settings,
     local_settings |-> local_settings]

\* settings that gate the endpoint, or leave a name undefined
GateProjects ==
    { Project(PlainView(<<"GET">>, "A"), [c \in {"A"} |-> Ser("ASerializer", <<>>)], g, l) :
        g \in { EmptyDict, [requires_authentication |-> TRUE], [requires_superuser |-> TRUE] },
        l \in { [default |-> Open],
                [v1 |-> Open],
                [default |-> Open, v1 |-> Update(Open, [requires_superuser |-> TRUE])],
                [default |-> Update(Open, [requires_authentication |-> FALSE]),
                 v1 |-> Update(Open, [requires_authentication |-> TRUE,
                                      requires_superuser |-> FALSE])] } }

\* serializer graphs under the response serializer A
SerializerGraphs ==
    { [c \in {"A"} |-> Ser("ASerializer", <<Field("x", "CharField", NoneVal)>>)],
      [c \in {"A"} |-> Ser("ASerializer",
            <<[Field("h", "HiddenField", NoneVal) EXCEPT !.write_only = TRUE],
              [Field("i", "IntegerField", NoneVal) EXCEPT !.read_only = TRUE, !.required = FALSE],
              Field("d", "DateField", NoneVal)>>)],
      [c \in {"A"} |-> Ser("ASerializer",
            <<ChoiceField("state", <<"new", "done">>, FALSE),
              [Field("w", "CharField", NoneVal) EXCEPT !.write_only = TRUE],
              Field("h", "HiddenField", NoneVal),
              [Field("n", "CharField", NoneVal) EXCEPT !.required = FALSE]>>)],
      [c \in {"A"} |-> Ser("ASerializer",
            <<[ChoiceField("level", <<1, 2>>, TRUE) EXCEPT !.required = FALSE]>>)],
      [c \in {"A", "B"} |->
          IF c = "A" THEN Ser("ASerializer", <<Field("b", "Serializer", "B")>>)
          ELSE Ser("BSerializer", <<Field("x", "CharField", NoneVal)>>)],
      [c \in {"A", "B"} |->
          IF c = "A" THEN Ser("ASerializer", <<[Field("b", "Serializer", "B") EXCEPT !.write_only = TRUE]>>)
          ELSE Ser("BSerializer", <<>>)],
      [c \in {"A", "B", "C"} |->
          IF c = "A" THEN Ser("ASerializer", <<Field("bs", "ListSerializer", "B")>>)
          ELSE IF c = "B" THEN Ser("BSerializer", <<Field("c", "Serializer", "C")>>)
          ELSE Ser("CSerializer", <<>>)],
      [c \in {"A", "B"} |->
          IF c = "A" THEN Ser("ASerializer", <<Field("b", "Serializer", "B")>>)
          ELSE Ser("BSerializer", <<Field("a", "Serializer", "A")>>)],
      [c \in {"A", "B"} |->
          IF c = "A" THEN [Ser("ASerializer", <<>>) EXCEPT !.child = "B"]
          ELSE Ser("BSerializer", <<Field("x", "CharField", NoneVal)>>)],
      [c \in {"A", "B", "C"} |->
          IF c = "A" THEN [Ser("ASerializer", <<>>) EXCEPT !.child = "B"]
          ELSE IF c = "B" THEN Ser("BSerializer", <<Field("c", "Serializer", "C")>>)
          ELSE Ser("CSerializer", <<>>)] }

GraphProjects ==
    { Project(PlainView(<<"GET">>, "A"), sers, EmptyDict, [default |-> Open]) :
        sers \in SerializerGraphs }

InBody(name) == [Ser(name, <<Field("x", "CharField", NoneVal)>>) EXCEPT !.in_body = TRUE]

TwoSers ==
    [c \in {"A", "R"} |-> IF c = "A" THEN Ser("ASerializer", <<>>) ELSE InBody("RSerializer")]

\* handlers whose documentation or serializer the build has to cope with
OperationViews ==
    { [PlainView(<<"GET">>, "A") EXCEPT !.method_docs = ("get" :> BadYaml)],
      [PlainView(<<"GET">>, "A") EXCEPT !.class_doc = BadYaml],
      [PlainView(<<"GET">>, "A") EXCEPT !.class_doc = [NoDoc EXCEPT !.text = "about"],
                                        !.method_docs = ("get" :> [NoDoc EXCEPT !.text = "list"])],
      PlainView(<<"GET">>, NoneVal),
      PlainView(<<"DELETE">>, NoneVal),
      PlainView(<<"OPTIONS", "GET", "DELETE">>, "A"),
      [PlainView(<<"GET">>, NoneVal) EXCEPT
          !.method_docs = ("get" :> Yaml([response_serializer |-> "A"]))],
      [PlainView(<<"GET">>, "A") EXCEPT
          !.method_docs = ("get" :> Yaml([response_serializer |-> "Missing"]))],
      [PlainView(<<"GET">>, "A") EXCEPT
          !.method_docs = ("get" :> Yaml([responseMessages |->
                              <<[code |-> 404, description |-> "Not found"]>>,
                            operationId |-> "listA"]))],
      [PlainView(<<"POST", "PATCH">>, "R") EXCEPT
          !.method_docs = ("post" :> Yaml([response_serializer |-> "A"]))],
      [PlainView(<<"GET", "POST">>, "A") EXCEPT
          !.variant = "Generic", !.list_mixin = TRUE,
          !.paginator = [present |-> TRUE, page |-> "page", size |-> NoneVal]],
      [PlainView(<<"GET">>, "A") EXCEPT
          !.variant = "Wrapped", !.class_doc = Yaml([force_pagination |-> TRUE])] }

OperationProjects ==
    { Project(view, TwoSers, EmptyDict, [default |-> Open]) : view \in OperationViews }

ErrorPayload ==
    [default_payload_definition_name |-> "Error",
     default_payload_definition |-> [type |-> "object"]]

\* two configuration names, one of them with operations and a payload of its own
ConfigurationProjects ==
    { Project([PlainView(<<"GET", "POST">>, "A") EXCEPT !.method_docs = ("post" :> Yaml(post))],
              TwoSers, EmptyDict, [default |-> Open, v1 |-> Update(Open, payload)]) :
        post \in { [request_serializer |-> "R", swagger_config_name |-> "v1"],
                   [request_serializer |-> "R", swagger_config_name |-> "default"],
                   [request_serializer |-> "R"] },
        payload \in { EmptyDict, ErrorPayload } }

\* a project whose settings name no basePath, and one with nothing to document
BareProjects ==
    { Project(PlainView(<<"GET">>, "A"), TwoSers, EmptyDict, [default |-> EmptyDict]),
      [Project(PlainView(<<"GET">>, "A"), TwoSers, EmptyDict, [default |-> EmptyDict])
          EXCEPT !.urlpatterns = <<Pattern("c", "c", NoneVal)>>] }

GenericView(verbs, list_mixin) ==
    [PlainView(verbs, "A") EXCEPT !.variant = "Generic", !.list_mixin = list_mixin]

\* a ViewSet route registered with as_view(actions)
ViewSet(actions) ==
    [PlainView([i \in 1..Len(actions) |-> Upper(actions[i].http)], "A") EXCEPT
        !.variant = "ViewSet", !.actions = actions]

ListAndCreate == <<[http |-> "get", action |-> "list"], [http |-> "post", action |-> "create"]>>

\* handlers of each variant with an override block in the class documentation,
\* keyed by verbs or by action names, and blocks in the methods' documentation
ClassBlockViews ==
    { [PlainView(<<"GET", "POST">>, "A") EXCEPT
          !.class_doc = Yaml([GET |-> [tags |-> <<"class">>, operationId |-> "classGet"],
                              POST |-> [tags |-> <<"post">>, produces |-> <<"text/csv">>]]),
          !.method_docs = ("get" :> Yaml([operationId |-> "methodGet"]))],
      [PlainView(<<"GET">>, "A") EXCEPT
          !.class_doc = Yaml([list |-> [tags |-> <<"class">>]])],
      [GenericView(<<"GET", "POST">>, TRUE) EXCEPT
          !.class_doc = Yaml([GET |-> [tags |-> <<"class">>]]),
          !.method_docs = ("list" :> Yaml([operationId |-> "methodList"]))],
      [GenericView(<<"GET", "POST">>, TRUE) EXCEPT
          !.class_doc = Yaml([list |-> [tags |-> <<"class">>]]),
          !.method_docs = ("list" :> Yaml([operationId |-> "methodList"]))],
      [GenericView(<<"GET", "PUT">>, FALSE) EXCEPT
          !.class_doc = Yaml([patch |-> [tags |-> <<"class">>]])],
      [ViewSet(ListAndCreate) EXCEPT
          !.class_doc = Yaml([list |-> [tags |-> <<"class">>, operationId |-> "classList"],
                              create |-> [tags |-> <<"create">>]]),
          !.method_docs = ("list" :> Yaml([operationId |-> "methodList"]))],
      [ViewSet(ListAndCreate) EXCEPT
          !.class_doc = Yaml([GET |-> [tags |-> <<"class">>]])] }

ClassBlockProjects ==
    { Project(view, TwoSers, EmptyDict, [default |-> Open]) : view \in ClassBlockViews }

\* a route tree: two included modules under one prefix, a route with a format
\* suffix, a route to no API handler, the router's root listing, a second handler
RouteTree ==
    << Resolver("v/", "products.urls",
           << Pattern("a", "a", "V"),
              Pattern("a.<format>", "a-format", "V"),
              Pattern("b/<id>", "b", "V"),
              Pattern("c", "c", NoneVal),
              [Pattern("c", "api-root", "V") EXCEPT !.router_root = TRUE] >>),
       [Resolver("v/", "legacy.urls",
            << Pattern("a", "a-legacy", "V"), Pattern("c", "c-legacy", "W") >>)
           EXCEPT !.namespace = "legacy"],
       Pattern("a", "a-top", "W") >>

RouteFilters ==
    { EmptyDict,
      [exclude_namespaces |-> <<"legacy">>],
      [exclude_module_paths |-> <<"legacy.urls">>],
      [include_module_paths |-> <<"products.urls">>],
      [exclude_url_patterns |-> <<Chars("/b")>>],
      [exclude_url_patterns_names |-> <<"a-legacy", "a-top">>] }

RouteProjects ==
    { [views |-> [v \in {"V", "W"} |->
                     IF v = "V" THEN PlainView(<<"GET">>, "A") ELSE PlainView(<<"POST">>, "A")],
       sers |-> TwoSers,
       urlpatterns |-> RouteTree,
       global_settings |-> EmptyDict,
       local_settings |-> [default |-> Update(Open, filters)]] : filters \in RouteFilters }

Paginator(page, size) == [present |-> TRUE, page |-> page, size |-> size]

Retrieve == <<[http |-> "get", action |-> "retrieve"], [http |-> "delete", action |-> "destroy"]>>

\* handlers with and without a pagination_class, with and without force_pagination
PaginationViews ==
    { [GenericView(<<"GET", "POST", "DELETE">>, TRUE) EXCEPT
          !.paginator = Paginator("page", "size"),
          !.method_docs = ("destroy" :> Yaml([force_pagination |-> TRUE]))],
      [GenericView(<<"GET", "PUT", "PATCH">>, FALSE) EXCEPT !.paginator = Paginator("page", "size")],
      GenericView(<<"GET", "DELETE">>, FALSE),
      [GenericView(<<"GET", "POST">>, FALSE) EXCEPT
          !.method_docs = ("create" :> Yaml([force_pagination |-> TRUE]))],
      [ViewSet(ListAndCreate) EXCEPT !.paginator = Paginator("page", "size")],
      [ViewSet(Retrieve) EXCEPT !.paginator = Paginator("page", NoneVal)],
      [PlainView(<<"GET", "DELETE">>, "A") EXCEPT !.paginator = Paginator("page", "")] }

PaginationProjects ==
    { Project(view, TwoSers, EmptyDict, [default |-> Open]) : view \in PaginationViews }

\* GLOBAL_PARAMETERS of the module global_parametters_docs names
GlobalParameters == [global_parametters_docs |-> [id |-> [description |-> "identifier"]]]

\* one handler behind a path template with placeholders
TemplateProjects ==
    { [Project(PlainView(<<"GET">>, "A"), TwoSers, EmptyDict, [default |-> Update(Open, docs)])
          EXCEPT !.urlpatterns = <<Resolver("v/", "products.urls", <<Pattern(regex, "b", "V")>>)>>] :
        regex \in {"b/<id>", "b/<id>-<c>", "<c>/b/<id>"},
        docs \in {EmptyDict, GlobalParameters} }

\* responseMessages of an override block: a code of its own, the code of the
\* generated response, one code twice
ResponseMessages ==
    { <<[code |-> 404, description |-> "Not found"]>>,
      <<[code |-> 200, description |-> "Found", schema |-> [ref |-> "ASerializer"]],
        [code |-> 404]>>,
      <<[code |-> 404, description |-> "Not found"],
        [code |-> 404, description |-> "Gone", schema |-> [type |-> "string"]]>> }

ResponseProjects ==
    { Project([PlainView(<<"GET", "DELETE">>, "A") EXCEPT
                  !.method_docs = ("get" :> Yaml([responseMessages |-> messages]))],
              TwoSers, EmptyDict, [default |-> Update(Open, payload)]) :
        messages \in ResponseMessages, payload \in {EmptyDict, ErrorPayload} }

\* handlers with a serializer only a method that gives no operation names: a
\* method restricted to another configuration name, the OPTIONS method
SkippedProjects ==
    { Project([PlainView(<<"GET", "POST">>, "A") EXCEPT !.method_docs =
                  ("post" :> Yaml([response_serializer |-> "R", swagger_config_name |-> "v1"]))],
              TwoSers, EmptyDict, [default |-> Open, v1 |-> Open]),
      Project([PlainView(<<"OPTIONS", "GET">>, "A") EXCEPT !.method_docs =
                  ("options" :> Yaml([response_serializer |-> "R"]))],
              TwoSers, EmptyDict, [default |-> Open]) }

Projects ==
    GateProjects \cup GraphProjects \cup OperationProjects \cup ConfigurationProjects \cup BareProjects
    \cup ClassBlockProjects \cup RouteProjects \cup PaginationProjects
    \cup TemplateProjects \cup ResponseProjects \cup SkippedProjects

----------------------------------------------------------------------------
(* The document endpoint: requests                                         *)

RequestIds == {"r1", "r2"}

\* kwargs.get('swagger_config_name'): /swagger.json gives None
ConfigNames == {NoneVal, "default", "v1", "v2"}

Users ==
    { [is_authenticated |-> FALSE, is_superuser |-> FALSE],
      [is_authenticated |-> TRUE, is_superuser |-> FALSE],
      [is_authenticated |-> TRUE, is_superuser |-> TRUE] }

\* a request is [pc, swagger_config_name, user, config, endpoints, paths,
\* response, error, trail]: where Swagger2JSONView.get stands, its inputs, self.config,
\* what get_paths of the view and of the generator returned, the document in the
\* Response, the exception that ended it, the steps it has taken
NoRequest ==
    [pc |-> "idle", swagger_config_name |-> NoneVal,
     user |-> [is_authenticated |-> FALSE, is_superuser |-> FALSE],
     config |-> EmptyDict, endpoints |-> <<>>, paths |-> <<>>,
     response |-> EmptyDict, error |-> "", trail |-> <<>>]

Generator(r) == [config |-> req[r].config, config_name |-> req[r].swagger_config_name]

Raise(r, step, error) ==
    [req EXCEPT ![r].pc = "raised", ![r].error = error, ![r].trail = Append(@, step)]

Init ==
    /\ app \in Projects
    /\ explicit_serializers = {}
    /\ explicit_response_types = EmptyDict
    /\ req = [r \in RequestIds |-> NoRequest]
    /\ pcall = IdleCall
    /\ parameters = <<>>
    /\ docstring = NoText

\* a GET arrives at the document endpoint
Receive(r) ==
    /\ req[r].pc = "idle"
    /\ \E name \in ConfigNames, user \in Users :
          req' = [req EXCEPT ![r].pc = "check_permission",
                             ![r].swagger_config_name = name,
                             ![r].user = user]
    /\ UNCHANGED <<app, explicit_serializers, explicit_response_types, pcall, parameters, docstring>>

\* Swagger2JSONView.check_permission
CheckPermission(r) ==
    /\ req[r].pc = "check_permission"
    /\ \E got \in {get_config(req[r].swagger_config_name)} :
          req' = IF got.error # "" THEN Raise(r, "check_permission", got.error)
                 ELSE IF ~has_permission(got.config, req[r].user)
                 THEN Raise(r, "check_permission", "PermissionDenied")
                 ELSE [req EXCEPT ![r].pc = "get_paths", ![r].config = got.config,
                                  ![r].trail = Append(@, "check_permission")]
    /\ UNCHANGED <<app, explicit_serializers, explicit_response_types, pcall, parameters, docstring>>

\* Swagger2JSONView.get_paths
CollectRoutes(r) ==
    /\ req[r].pc = "get_paths"
    /\ req' = [req EXCEPT ![r].pc = "get_root", ![r].endpoints = get_apis(req[r].config),
                          ![r].trail = Append(@, "get_paths")]
    /\ UNCHANGED <<app, explicit_serializers, explicit_response_types, pcall, parameters, docstring>>

\* what get_root, lines 40-45, leaves in explicit_response_types
with_default_payload(response_types, config) ==
    IF Get(config, "default_payload_definition", EmptyDict) # EmptyDict
    THEN Put(response_types, Get(config, "default_payload_definition_name", NoneVal),
             config["default_payload_definition"])
    ELSE response_types

\* DocumentationGenerator.get_root up to the dictionary it returns
BeginRoot(r) ==
    /\ req[r].pc = "get_root"
    /\ explicit_response_types' = with_default_payload(explicit_response_types, req[r].config)
    /\ req' = [req EXCEPT ![r].pc = "paths", ![r].trail = Append(@, "get_root")]
    /\ UNCHANGED <<app, explicit_serializers, pcall, parameters, docstring>>

\* 'paths': self.get_paths(endpoints_conf)
BuildPaths(r) ==
    /\ req[r].pc = "paths"
    /\ \E got \in {get_paths(req[r].endpoints, Generator(r))} :
          /\ explicit_serializers' = explicit_serializers \cup got.explicit
          /\ req' = IF got.error # "" THEN Raise(r, "paths", got.error)
                    ELSE [req EXCEPT ![r].pc = "definitions", ![r].paths = got.paths,
                                     ![r].endpoints =
                                         [i \in 1..Len(@) |->
                                             [@[i] EXCEPT !.path =
                                                 extract_base_path(@, req[r].config["basePath"])]],
                                     ![r].trail = Append(@, "paths")]
    /\ UNCHANGED <<app, explicit_response_types, pcall, parameters, docstring>>

\* the dictionary get_root returns
Document(config, paths, definitions) ==
    [swagger |-> "2.0", basePath |-> Get(config, "basePath", <<>>),
     paths |-> paths, definitions |-> definitions]

\* 'definitions': self.get_definitions(endpoints_conf), and the Response
BuildDefinitions(r) ==
    /\ req[r].pc = "definitions"
    /\ \E got \in {get_definitions(req[r].endpoints, explicit_serializers, explicit_response_types)} :
          req' = IF got.error # "" THEN Raise(r, "definitions", got.error)
                 ELSE [req EXCEPT ![r].pc = "responded",
                                  ![r].response = Document(req[r].config, req[r].paths, got.definitions),
                                  ![r].trail = Append(@, "definitions")]
    /\ UNCHANGED <<app, explicit_serializers, explicit_response_types, pcall, parameters, docstring>>

Next ==
    \E r \in RequestIds :
        \/ Receive(r)
        \/ CheckPermission(r)
        \/ CollectRoutes(r)
        \/ BeginRoot(r)
        \/ BuildPaths(r)
        \/ BuildDefinitions(r)

Spec == Init /\ [][Next]_vars

----------------------------------------------------------------------------
(* Properties of the document endpoint (Spec)                              *)

Responded(r) == req[r].pc = "responded"

Took(r, step) == \E i \in 1..Len(req[r].trail) : req[r].trail[i] = step

\* every name under a '$ref' of a schema, its items, its properties
RECURSIVE SchemaRefs(_)
SchemaRefs(schema) ==
    (IF Has(schema, "ref") THEN {schema["ref"]} ELSE {})
    \cup (IF Has(schema, "items") THEN SchemaRefs(schema["items"]) ELSE {})
    \cup (IF Has(schema, "schema") THEN SchemaRefs(schema["schema"]) ELSE {})
    \cup (IF Has(schema, "properties")
          THEN UNION {SchemaRefs(schema["properties"][i].schema) :
                         i \in 1..Len(schema["properties"])}
          ELSE {})

OperationRefs(operation) ==
    UNION {SchemaRefs(operation["parameters"][i]) : i \in 1..Len(operation["parameters"])}
    \cup UNION {SchemaRefs(operation["responses"][code]) : code \in DOMAIN operation["responses"]}

PathItemRefs(item) ==
    UNION {OperationRefs(item.operations[verb]) : verb \in DOMAIN item.operations}

PathsRefs(paths) == UNION {PathItemRefs(paths[i].item) : i \in 1..Len(paths)}

DefinitionsRefs(definitions) ==
    UNION {SchemaRefs(definitions[name]) : name \in DOMAIN definitions}

DocumentRefs(document) ==
    PathsRefs(document.paths) \cup DefinitionsRefs(document.definitions)

\* C1: in every document get_root returns, every name under a '$ref', in
\* `paths` or inside `definitions`, is a key of the document's `definitions`.
C1_NoDanglingRef ==
    \A r \in RequestIds :
        Responded(r) =>
            DocumentRefs(req[r].response) \subseteq DOMAIN req[r].response.definitions

\* the document the build of request r returns when it runs alone in a fresh
\* process: both class attributes empty when it starts
AloneDocument(r) ==
    LET endpoints == get_apis(req[r].config)
        built == get_paths(endpoints, Generator(r))
        definitions == get_definitions(endpoints, built.explicit,
                                       with_default_payload(EmptyDict, req[r].config))
    IN Document(req[r].config, built.paths, definitions.definitions)

\* C2: whatever builds ran before or beside it, the document a build returns
\* is the document that build returns when run alone in a fresh process.
C2_BuildsAreIndependent ==
    \A r \in RequestIds : Responded(r) => req[r].response = AloneDocument(r)

\* the serializer classes the fields of the classes in `seen` lead to
RECURSIVE FieldClosure(_)
FieldClosure(seen) ==
    LET targets(c) == {app.sers[c].fields[i].target :
                          i \in {j \in 1..Len(app.sers[c].fields) :
                                    IsSerializerField(app.sers[c].fields[j])}}
        next == seen \cup UNION {targets(c) : c \in seen}
    IN IF next = seen THEN seen ELSE FieldClosure(next)

\* the serializer classes the build of request r starts its discovery from
Declared(r) ==
    {s.cls : s \in get_serializer_set(req[r].endpoints).set \cup explicit_serializers}

\* C6: the nested-serializer discovery of get_definitions terminates on every
\* finite serializer graph, a cyclic one included, and the definitions hold one
\* entry for every serializer of the graph.
C6_DiscoveryTerminates ==
    \A r \in RequestIds :
        /\ req[r].error # "RuntimeError: maximum recursion depth exceeded"
        /\ Responded(r) =>
              \A c \in FieldClosure(Declared(r)) :
                  get_serializer_name(ClassOf(c)) \in DOMAIN req[r].response.definitions

\* the operations of handler V whose override block, in the method's or the
\* class's documentation, is not well-formed YAML
Malformed(mi) ==
    \/ load_obj_from_docstring(get_docs(mi)).yaml_error
    \/ load_obj_from_docstring(app.views[mi.view].class_doc).yaml_error

\* the operation of method introspector mi in the paths of request r, if it is there
Emitted(r, mi) ==
    \E i \in 1..Len(req[r].paths) : Lower(mi.http_method) \in DOMAIN req[r].paths[i].item.operations

OperationOf(r, mi) ==
    LET i == CHOOSE j \in 1..Len(req[r].paths) :
                 Lower(mi.http_method) \in DOMAIN req[r].paths[j].item.operations
    IN req[r].paths[i].item.operations[Lower(mi.http_method)]

MethodIntrospectors == Range(get_method_introspectors("V"))

\* C7: a malformed override block never aborts the build: the build goes on,
\* the operation is in the paths and carries a parse-error note.
C7_MalformedOverrideIsNoted ==
    \A r \in RequestIds : \A mi \in MethodIntrospectors :
        (Malformed(mi) /\ Took(r, "paths") /\ req[r].endpoints # <<>>) =>
            /\ req[r].pc # "raised"
            /\ Emitted(r, mi)
            /\ Has(OperationOf(r, mi), "notes")

\* neither an override nor the handler supplies a response serializer
NoResponseSerializer(mi) ==
    /\ get_response_serializer_class(mi).error = ""
    /\ get_response_serializer_class(mi).serializer = NoneSer

\* C8: an operation other than DELETE with no response serializer is emitted
\* all the same, its success response without a schema, and the build completes.
C8_MissingSerializerIsEmitted ==
    \A r \in RequestIds : \A mi \in MethodIntrospectors :
        (/\ NoResponseSerializer(mi)
         /\ mi.http_method # "DELETE"
         /\ Took(r, "paths")
         /\ req[r].endpoints # <<>>) =>
            /\ req[r].pc # "raised"
            /\ Emitted(r, mi)
            /\ \A code \in {"200", "201"} \cap DOMAIN OperationOf(r, mi)["responses"] :
                  ~Has(OperationOf(r, mi)["responses"][code], "schema")

Received(r) == req[r].pc # "idle"

\* the configuration name a request selects: an absent name stands for "default"
SelectedName(r) ==
    IF req[r].swagger_config_name = NoneVal THEN "default" ELSE req[r].swagger_config_name

Defined(name) == name \in DOMAIN app.local_settings

\* nothing of the request went past the gate: no route collected, no document begun
StoppedAtGate(r) ==
    /\ req[r].pc = "raised"
    /\ req[r].trail = <<"check_permission">>
    /\ req[r].endpoints = <<>>
    /\ req[r].paths = <<>>
    /\ req[r].response = EmptyDict

\* C9: a request that names an undefined configuration (no name stands for
\* "default") ends with the error of get_config, raised before any route is
\* collected and before the document is begun; it returns no document.
C9_UnknownConfigurationFailsFirst ==
    \A r \in RequestIds :
        (Received(r) /\ ~Defined(SelectedName(r))) =>
            \/ req[r].pc = "check_permission"
            \/ /\ StoppedAtGate(r)
               /\ req[r].error = "Exception: " \o SelectedName(r) \o " swagger settings not defined"

C9_Witness ==
    \E r1, r2 \in RequestIds :
        /\ req[r1].swagger_config_name = NoneVal /\ ~Defined("default")
        /\ req[r1].error = "Exception: default swagger settings not defined"
        /\ req[r2].swagger_config_name = "v2"
        /\ req[r2].error = "Exception: v2 swagger settings not defined"
        /\ StoppedAtGate(r1) /\ StoppedAtGate(r2)

\* the settings the selected configuration name stands for
SelectedSettings(r) ==
    Update(Update(DEFAULT_SWAGGER_SETTINGS, app.global_settings), app.local_settings[SelectedName(r)])

Denied(r) ==
    \/ SelectedSettings(r)["requires_authentication"] /\ ~req[r].user.is_authenticated
    \/ SelectedSettings(r)["requires_superuser"] /\ ~req[r].user.is_superuser

\* the request is past the gate: its routes are being collected, its document is
\* being built or was returned, or the build raised
PastGate(r) ==
    /\ req[r].trail # <<>> /\ req[r].trail[1] = "check_permission"
    /\ req[r].error # "PermissionDenied"
    /\ \/ req[r].pc \in {"get_paths", "get_root", "paths", "definitions", "responded"}
       \/ req[r].pc = "raised" /\ Len(req[r].trail) > 1

\* C10: with a defined configuration, a request is rejected with a permission
\* error, before routes are collected and the document is begun, exactly when the
\* configuration requires authentication and the caller has none or requires a
\* superuser and the caller is none; every other request goes on to the build.
C10_PermissionGate ==
    \A r \in RequestIds :
        (req[r].pc \notin {"idle", "check_permission"} /\ Defined(SelectedName(r))) =>
            IF Denied(r)
            THEN StoppedAtGate(r) /\ req[r].error = "PermissionDenied"
            ELSE PastGate(r)

C10_Witness ==
    \E r1, r2 \in RequestIds :
        /\ Defined(SelectedName(r1))
        /\ SelectedSettings(r1)["requires_superuser"]
        /\ req[r1].user.is_authenticated /\ ~req[r1].user.is_superuser
        /\ StoppedAtGate(r1) /\ req[r1].error = "PermissionDenied"
        /\ Defined(SelectedName(r2))
        /\ SelectedSettings(r2)["requires_authentication"]
        /\ req[r2].user.is_authenticated
        /\ Responded(r2)

----------------------------------------------------------------------------
(* Class-level and method-level override blocks (Spec)                     *)

CheckYamlMethodsError == "Exception: methods in class docstring are not in view methods"

\* the handlers the routes of request r lead to
Handlers(r) == {req[r].endpoints[i].callback : i \in 1..Len(req[r].endpoints)}

\* the action names of the method descriptors of handler v
ExposedActions(v) ==
    {view_method_introspectors(v)[i].method : i \in 1..Len(view_method_introspectors(v))}

ClassObject(v) == load_obj_from_docstring(app.views[v].class_doc).object

MethodObject(mi) == load_obj_from_docstring(get_docs(mi)).object

Checked(v) == app.views[v].variant \in {"APIView", "Generic", "ViewSet"}

\* the class-level block of v has a key that names no action of v
OutOfSync(v) == \E key \in DOMAIN ClassObject(v) : key \notin ExposedActions(v)

\* C11: when the class-level override block of a Plain, Resource-action or
\* Action-set handler holds a key that is no action name of that handler, the
\* build of the handler's operations raises and the request returns no document.
C11_OutOfSyncBlockIsFatal ==
    \A r \in RequestIds : \A v \in Handlers(r) :
        (/\ Took(r, "paths")
         /\ Checked(v)
         /\ OutOfSync(v)
         /\ get_method_introspectors(v) # <<>>) =>
            /\ req[r].pc = "raised"
            /\ req[r].error = CheckYamlMethodsError
            /\ req[r].response = EmptyDict

\* the override object in effect for a method descriptor: the class-level entry
\* of its action name, overlaid key by key with the method-level object
EffectiveOverride(mi) ==
    LET inherited == IF Has(ClassObject(mi.view), mi.method)
                     THEN ClassObject(mi.view)[mi.method] ELSE EmptyDict
    IN [key \in DOMAIN inherited \cup DOMAIN MethodObject(mi) |->
           IF Has(MethodObject(mi), key) THEN MethodObject(mi)[key] ELSE inherited[key]]

\* the keys of an override object an operation shows as they are
ShownKeys(r, mi) ==
    LET operation == OperationOf(r, mi)
        override == EffectiveOverride(mi)
    IN /\ operation["tags"] = Get(override, "tags", <<>>)
       /\ operation["operationId"] = Get(override, "operationId", NoneVal)
       /\ operation["produces"] = Get(override, "produces", Get(req[r].config, "produces", NoneVal))

\* C15: for the method descriptors of a Plain, Resource-action or Action-set
\* handler whose class-level block is keyed by its action names, the build goes
\* through and every operation shows the class-level entry of its own action
\* overlaid with the method-level object: method-level values win, class-only
\* keys are inherited, no key of another action's entry appears.
C15_ClassEntryOverlaidByMethod ==
    \A r \in RequestIds : \A v \in Handlers(r) :
        (/\ Took(r, "paths")
         /\ Checked(v)
         /\ DOMAIN ClassObject(v) # {}
         /\ ~OutOfSync(v)) =>
            /\ req[r].error # CheckYamlMethodsError
            /\ req[r].pc \in {"definitions", "responded"} =>
                  \A mi \in Range(get_method_introspectors(v)) :
                      Emitted(r, mi) /\ ShownKeys(r, mi)

----------------------------------------------------------------------------
(* Route collection (Spec)                                                 *)

\* the leaves of a route tree in depth-first order, each with its normalized
\* path and whether it lies under a sub-tree the settings skip
RECURSIVE LeavesOf(_, _, _, _)
LeavesOf(patterns, prefix, skipped, config) ==
    IF patterns = <<>> THEN <<>>
    ELSE LET pattern == Head(patterns)
             skip == \/ skipped
                     \/ /\ config["include_module_paths"] # <<>>
                        /\ pattern.module \notin Range(config["include_module_paths"])
                     \/ pattern.module \in Range(config["exclude_module_paths"])
                     \/ /\ pattern.namespace # NoneVal
                        /\ pattern.namespace \in Range(config["exclude_namespaces"])
         IN (IF pattern.kind = "pattern"
             THEN << [path |-> replace_brackets(simplify_regex(prefix \o pattern.regex)),
                      name |-> pattern.name, callback |-> pattern.callback,
                      router_root |-> pattern.router_root, skipped |-> skipped] >>
             ELSE LeavesOf(pattern.url_patterns, prefix \o pattern.regex, skip, config))
            \o LeavesOf(Tail(patterns), prefix, skipped, config)

FormatSuffix == <<".", "{", "f", "o", "r", "m", "a", "t", "}">>

\* the leaf matches no exclusion filter
Included(leaf, config) ==
    /\ leaf.callback # NoneVal
    /\ ~leaf.router_root
    /\ ~Contains(leaf.path, FormatSuffix)
    /\ \A i \in 1..Len(config["exclude_url_patterns"]) :
           ~Contains(leaf.path, config["exclude_url_patterns"][i])
    /\ leaf.name \notin Range(config["exclude_url_patterns_names"])
    /\ ~leaf.skipped

PathAndHandler(seq) == [i \in 1..Len(seq) |-> <<seq[i].path, seq[i].callback>>]

\* a sequence without the later occurrences of its elements
RECURSIVE Distinct(_)
Distinct(seq) ==
    IF seq = <<>> THEN <<>>
    ELSE LET front == Distinct(SubSeq(seq, 1, Len(seq) - 1))
         IN IF seq[Len(seq)] \in Range(front) THEN front ELSE Append(front, seq[Len(seq)])

\* the list get_apis returned to the view, before get_paths cuts the base path
Collected(r) == Took(r, "get_paths") /\ ~Took(r, "paths")

\* C12: the list get_apis returns holds, in depth-first order of the route
\* tree, exactly one Endpoint for each distinct (path, handler) pair of the
\* leaves that match no exclusion filter, and nothing else.
C12_OneEndpointPerPathAndHandler ==
    \A r \in RequestIds :
        Collected(r) =>
            PathAndHandler(req[r].endpoints) =
                Distinct(PathAndHandler(
                    SelectSeq(LeavesOf(app.urlpatterns, <<>>, FALSE, req[r].config),
                              LAMBDA leaf : Included(leaf, req[r].config))))

\* the same without the requirement of one Endpoint per pair
C12_EveryIncludedLeafInOrder ==
    \A r \in RequestIds :
        Collected(r) =>
            PathAndHandler(req[r].endpoints) =
                PathAndHandler(
                    SelectSeq(LeavesOf(app.urlpatterns, <<>>, FALSE, req[r].config),
                              LAMBDA leaf : Included(leaf, req[r].config)))

----------------------------------------------------------------------------
(* Success responses and pagination (Spec)                                 *)

\* the method descriptors of the handlers of request r whose operation is in its paths
EmittedDescriptors(r) ==
    {mi \in UNION {Range(get_method_introspectors(v)) : v \in Handlers(r)} : Emitted(r, mi)}

\* the status codes the override block declares under responseMessages
DeclaredCodes(mi) == DOMAIN get_response_messages(get_yaml_parser(mi).object)

\* a delete operation is one with verb DELETE, a create operation one with verb POST
SuccessCode(mi) ==
    IF mi.http_method = "DELETE" THEN "204"
    ELSE IF mi.http_method = "POST" THEN "201"
    ELSE "200"

Built(r) == req[r].pc \in {"definitions", "responded"}

\* C13: every emitted operation has its generated success response under "204"
\* for DELETE, "201" for POST and "200" for the other verbs, and under no other
\* of these codes; for DELETE it is {description: "Deleted"}, without schema,
\* whether or not the handler paginates or the override forces pagination.
C13_SuccessCodeByVerb ==
    \A r \in RequestIds :
        Built(r) =>
            \A mi \in EmittedDescriptors(r) :
                LET responses == OperationOf(r, mi)["responses"]
                IN /\ SuccessCode(mi) \in DOMAIN responses
                   /\ \A code \in ({"200", "201", "204"} \ {SuccessCode(mi)}) \cap DOMAIN responses :
                          code \in DeclaredCodes(mi)
                   /\ (mi.http_method = "DELETE" /\ "204" \notin DeclaredCodes(mi)) =>
                          responses["204"] = [description |-> "Deleted"]

C13_Witness ==
    \E r \in RequestIds :
        /\ Responded(r)
        /\ app.views["V"].paginator.present
        /\ \E mi \in EmittedDescriptors(r) :
              /\ mi.http_method = "DELETE"
              /\ Get(get_yaml_parser(mi).object, "force_pagination", FALSE)
              /\ OperationOf(r, mi)["responses"] = ("204" :> [description |-> "Deleted"])
        /\ \E mi \in EmittedDescriptors(r) :
              mi.http_method = "POST" /\ DOMAIN OperationOf(r, mi)["responses"] = {"201"}
        /\ \E mi \in EmittedDescriptors(r) :
              mi.http_method = "GET" /\ DOMAIN OperationOf(r, mi)["responses"] = {"200"}

\* the schema is the pagination envelope around the response object
IsEnvelope(schema, response_object) ==
    /\ Has(schema, "properties")
    /\ schema["type"] = "object"
    /\ [i \in 1..Len(schema["properties"]) |-> schema["properties"][i].name]
          = <<"next", "previous", "count", "results", "page", "size">>
    /\ schema["properties"][4].schema["items"] = response_object

Forced(mi) == Get(get_yaml_parser(mi).object, "force_pagination", FALSE)

\* a read-list operation: a GET that is not the `retrieve` action of a
\* Resource-action or Action-set handler (the GET of a Plain handler counts)
ReadList(mi) == mi.http_method = "GET" /\ mi.method # "retrieve"

ResponseObject(mi) == [ref |-> get_serializer_name(get_response_serializer_class(mi).serializer)]

\* C14: the success response of an operation other than DELETE has the
\* pagination envelope as its schema exactly when the override forces pagination
\* or the operation is a read-list operation answering 200 on a handler with a
\* pagination class; otherwise the schema is the reference to the response
\* serializer, also for retrieve, update and partial_update on such a handler.
C14_EnvelopeOnlyForListOrForced ==
    \A r \in RequestIds :
        Built(r) =>
            \A mi \in EmittedDescriptors(r) :
                (mi.http_method # "DELETE" /\ SuccessCode(mi) \notin DeclaredCodes(mi)) =>
                    LET schema == OperationOf(r, mi)["responses"][SuccessCode(mi)]["schema"]
                    IN IF \/ Forced(mi)
                          \/ /\ ReadList(mi)
                             /\ SuccessCode(mi) = "200"
                             /\ app.views[mi.view].paginator.present
                       THEN IsEnvelope(schema, ResponseObject(mi))
                       ELSE schema = ResponseObject(mi)

\* a parameter reflected from the handler's pagination class
IsPaginationParameter(p, v) ==
    /\ app.views[v].paginator.present
    /\ p["in"] = "query"
    /\ p["name"] \in {app.views[v].paginator.page, app.views[v].paginator.size}
    /\ Get(p, "type", "") = "integer"

\* C20: an operation carries a reflected pagination parameter only if its
\* handler has a pagination class and it is a read-list operation: the GET that
\* retrieves one record and the operations of the other verbs carry none.
C20_PaginationParametersOnlyForList ==
    \A r \in RequestIds :
        Built(r) =>
            \A mi \in EmittedDescriptors(r) :
                LET params == OperationOf(r, mi)["parameters"]
                IN (\E i \in 1..Len(params) : IsPaginationParameter(params[i], mi.view)) =>
                       ReadList(mi)

----------------------------------------------------------------------------
(* Path parameters (Spec)                                                  *)

\* the names of the `{name}` placeholders of a path template, wherever they
\* stand, in the order of the template, scanning from position i
RECURSIVE Placeholders(_, _)
Placeholders(path, i) ==
    IF i > Len(path) THEN <<>>
    ELSE IF path[i] = "{" /\ \E j \in (i + 1)..Len(path) : path[j] = "}"
    THEN LET close == CHOOSE j \in (i + 1)..Len(path) :
                          path[j] = "}" /\ \A k \in (i + 1)..(j - 1) : path[k] # "}"
         IN <<JoinChars(SubSeq(path, i + 1, close - 1))>> \o Placeholders(path, close + 1)
    ELSE Placeholders(path, i + 1)

\* C19: the hoisted parameters of a path item are, in the order of the
\* template, one parameter for each `{name}` placeholder of the path, wherever it
\* stands in the template, with that name, location path, type string and
\* required true, and no other parameter.
C19_OneParameterPerPlaceholder ==
    \A r \in RequestIds :
        Built(r) =>
            \A i \in 1..Len(req[r].paths) :
                LET names == Placeholders(req[r].paths[i].path, 1)
                    hoisted == req[r].paths[i].item.parameters
                IN /\ Len(hoisted) = Len(names)
                   /\ \A k \in 1..Len(hoisted) :
                          /\ hoisted[k]["name"] = names[k]
                          /\ hoisted[k]["in"] = "path"
                          /\ hoisted[k]["type"] = "string"
                          /\ hoisted[k]["required"] = TRUE

----------------------------------------------------------------------------
(* The responses of an operation (Spec)                                    *)

\* the responseMessages items of the override block in effect for mi
MessageItems(mi) == Get(get_yaml_parser(mi).object, "responseMessages", <<>>)

\* str(message.get('code'))
CodeKey(message) == IF Has(message, "code") THEN ToString(message["code"]) ELSE "None"

\* the entry the last item with that key gives
MessageEntry(items, key) ==
    LET last == CHOOSE i \in 1..Len(items) :
                    CodeKey(items[i]) = key /\ \A j \in (i + 1)..Len(items) : CodeKey(items[j]) # key
    IN IF Has(items[last], "schema")
       THEN [description |-> Get(items[last], "description", ""), schema |-> items[last]["schema"]]
       ELSE [description |-> Get(items[last], "description", "")]

DefaultConfigured(r) == Get(req[r].config, "default_payload_definition", EmptyDict) # EmptyDict

\* C21: the responses of an operation are the default error response under
\* `default` (only with a default payload definition configured), the generated
\* success response, and the responseMessages items under their code as a
\* string; where keys coincide the later layer is the entry, and entries under
\* other keys are those of their own layer.
C21_ResponsesInThreeLayers ==
    \A r \in RequestIds :
        Built(r) =>
            \A mi \in EmittedDescriptors(r) :
                LET responses == OperationOf(r, mi)["responses"]
                    items == MessageItems(mi)
                    declared == {CodeKey(items[i]) : i \in 1..Len(items)}
                IN /\ DOMAIN responses =
                          declared \cup {SuccessCode(mi)}
                          \cup (IF DefaultConfigured(r) THEN {"default"} ELSE {})
                   /\ \A key \in DOMAIN responses :
                          IF key \in declared
                          THEN responses[key] = MessageEntry(items, key)
                          ELSE IF key = SuccessCode(mi)
                          THEN responses[key]["description"] \in {"Successful operation", "Deleted"}
                          ELSE responses[key] =
                                   [description |-> "error payload",
                                    schema |-> [ref |-> req[r].config["default_payload_definition_name"]]]

C21_Witness ==
    \E r \in RequestIds : \E mi \in EmittedDescriptors(r) :
        /\ Built(r)
        /\ DefaultConfigured(r)
        /\ mi.http_method = "GET"
        /\ DOMAIN OperationOf(r, mi)["responses"] = {"default", "200", "404"}
        /\ OperationOf(r, mi)["responses"]["200"] =
               [description |-> "Found", schema |-> [ref |-> "ASerializer"]]
        /\ OperationOf(r, mi)["responses"]["404"] = [description |-> ""]

----------------------------------------------------------------------------
(* Operations restricted to a configuration name (Spec)                    *)

\* the method descriptors (OPTIONS left out) of the handlers collected for r
Descriptors(r) == UNION {Range(get_method_introspectors(v)) : v \in Handlers(r)}

\* the swagger_config_name of the effective override of mi, "" when it has none
RestrictedTo(mi) == Get(get_yaml_parser(mi).object, "swagger_config_name", "")

\* C22: in a build for configuration name N a method descriptor restricted to
\* another name has no operation in the document, one with no restriction or
\* restricted to N has one, and an endpoint none of whose descriptors has an
\* operation has no entry in paths.
C22_OperationsOfTheSelectedName ==
    \A r \in RequestIds :
        Built(r) =>
            /\ \A mi \in Descriptors(r) :
                   Emitted(r, mi) <=> RestrictedTo(mi) \in {"", SelectedName(r)}
            /\ \A i \in 1..Len(req[r].endpoints) :
                   (\A mi \in Range(get_method_introspectors(req[r].endpoints[i].callback)) :
                        RestrictedTo(mi) \notin {"", SelectedName(r)})
                   => \A j \in 1..Len(req[r].paths) :
                          req[r].paths[j].path # req[r].endpoints[i].path

----------------------------------------------------------------------------
(* The keys of paths (Spec)                                                *)

\* the normalized path templates get_apis gives for the configuration of r
Templates(r) == {get_apis(req[r].config)[i].path : i \in 1..Len(get_apis(req[r].config))}

\* a template with the configured base path removed once from its front; kept
\* as it is when it does not start with it or no base path is configured
Stripped(template, config) ==
    IF Has(config, "basePath") /\ StartsWith(template, config["basePath"])
    THEN SubSeq(template, Len(config["basePath"]) + 1, Len(template))
    ELSE template

\* C23: once get_paths has run the build has not failed for want of a
\* configured base path, every key of paths is a collected template with the
\* base path removed once from its front (unchanged when it does not start
\* with it or none is configured), and the keys are in ascending order.
C23_KeysAreStrippedTemplatesInOrder ==
    \A r \in RequestIds :
        (Took(r, "paths") /\ Templates(r) # {}) =>
            /\ ~Has(req[r].config, "basePath") => req[r].pc # "raised"
            /\ Built(r) =>
                   /\ \A i \in 1..Len(req[r].paths) :
                          req[r].paths[i].path \in
                              {Stripped(template, req[r].config) : template \in Templates(r)}
                   /\ \A i, j \in 1..Len(req[r].paths) :
                          i < j => PathLess(req[r].paths[i].path, req[r].paths[j].path)

----------------------------------------------------------------------------
(* The definitions of serializers (Spec)                                   *)

Definitions(r) == req[r].response["definitions"]

\* the serializer classes whose definition, made by get_definition, is in the
\* document of r as an object
ObjectShaped(r) ==
    {c \in DOMAIN app.sers :
        /\ app.sers[c].name \in DOMAIN Definitions(r)
        /\ Has(Definitions(r)[app.sers[c].name], "properties")}

PropertiesOf(r, c) == Definitions(r)[app.sers[c].name]["properties"]

FieldsOf(c) == {app.sers[c].fields[i] : i \in 1..Len(app.sers[c].fields)}

\* a field declaring a fixed choice set
IsEnumKind(field) == field.cls = "ChoiceField"

\* C24: in every definition the schema of a field of enum kind carries an
\* `enum` list equal to the choice keys of the field.
C24_EnumListsTheChoiceKeys ==
    \A r \in RequestIds :
        Responded(r) =>
            \A c \in ObjectShaped(r) : \A field \in FieldsOf(c) :
                \A i \in 1..Len(PropertiesOf(r, c)) :
                    (IsEnumKind(field) /\ PropertiesOf(r, c)[i].name = field.name) =>
                        /\ Has(PropertiesOf(r, c)[i].schema, "enum")
                        /\ PropertiesOf(r, c)[i].schema["enum"] = field.choices

\* the fields get_definition shows: neither hidden nor write-only
IsShown(field) == field.cls # "HiddenField" /\ ~field.write_only

NamesOf(fields) == [i \in 1..Len(fields) |-> fields[i].name]

IsRequired(c, name) == \E field \in FieldsOf(c) : field.name = name /\ field.required

\* C25: the properties of an object-shaped definition are the fields of the
\* serializer that are neither hidden nor write-only, in field order;
\* `required` is there exactly when one of them is required, and lists the
\* required ones in property order.
C25_PropertiesAndRequired ==
    \A r \in RequestIds :
        Responded(r) =>
            \A c \in ObjectShaped(r) :
                LET definition == Definitions(r)[app.sers[c].name]
                    names == NamesOf(PropertiesOf(r, c))
                    marked == SelectSeq(names, LAMBDA name : IsRequired(c, name))
                IN /\ names = NamesOf(SelectSeq(app.sers[c].fields, IsShown))
                   /\ Has(definition, "required") <=> marked # <<>>
                   /\ Has(definition, "required") =>
                          /\ definition["required"] = marked
                          /\ Range(definition["required"]) \subseteq Range(names)

C25_Witness ==
    \E r \in RequestIds :
        /\ Responded(r)
        /\ \E c \in ObjectShaped(r) :
               /\ \E field \in FieldsOf(c) : field.cls = "HiddenField" /\ field.required
               /\ \E field \in FieldsOf(c) :
                      field.cls # "HiddenField" /\ field.write_only /\ field.required
               /\ \E field \in FieldsOf(c) : IsShown(field) /\ ~field.required
               /\ NamesOf(PropertiesOf(r, c)) = <<"state", "n">>
               /\ Definitions(r)[app.sers[c].name]["required"] = <<"state">>

----------------------------------------------------------------------------
(* The keys of a class-level block of a Resource-action handler (Spec)     *)

\* the names check_yaml_methods passed: the build did not raise its error
Accepted(r) == req[r].error # CheckYamlMethodsError

\* C26: for a Resource-action handler the class-level block is accepted
\* exactly when every key of it is the action name of one of the handler's
\* descriptors, and an accepted entry is applied to the descriptor of that
\* action.
C26_AcceptedKeysAreLookupNames ==
    \A r \in RequestIds : \A v \in Handlers(r) :
        (/\ Took(r, "paths")
         /\ app.views[v].variant = "Generic"
         /\ DOMAIN ClassObject(v) # {}
         /\ get_method_introspectors(v) # <<>>) =>
            /\ Accepted(r) <=> DOMAIN ClassObject(v) \subseteq ExposedActions(v)
            /\ (Accepted(r) /\ Built(r)) =>
                   \A mi \in Range(get_method_introspectors(v)) :
                       Has(ClassObject(v), mi.method) =>
                           OperationOf(r, mi)["tags"] = Get(EffectiveOverride(mi), "tags", <<>>)

----------------------------------------------------------------------------
(* What the definitions are there for (Spec)                               *)

\* the names reachable from `names` through the '$ref's of their definitions
RECURSIVE RefClosure(_, _)
RefClosure(definitions, names) ==
    LET next == names \cup UNION {SchemaRefs(definitions[name]) :
                                     name \in names \cap DOMAIN definitions}
    IN IF next = names THEN names ELSE RefClosure(definitions, next)

\* the default response type of the configuration of r
ConfiguredTypes(r) ==
    IF DefaultConfigured(r) THEN {req[r].config["default_payload_definition_name"]} ELSE {}

\* C28: every key of the definitions of a document is referenced by an
\* operation in the paths of that document, or reachable from one through the
\* fields of the definitions, or is the default response type of the
\* configuration the document is built for.
C28_DefinitionsAreUsed ==
    \A r \in RequestIds :
        Responded(r) =>
            DOMAIN Definitions(r) \subseteq
                RefClosure(Definitions(r), PathsRefs(req[r].response.paths))
                \cup ConfiguredTypes(r)

----------------------------------------------------------------------------
(* Operations of endpoints with one path key (Spec)                        *)

\* get_operations builds an operation for mi in the build of r: line 130
\* does not skip it
IsBuilt(r, mi) == RestrictedTo(mi) \in {"", req[r].swagger_config_name}

\* the operation of mi is in the paths of r under the path key and the verb
Under(r, path, mi) ==
    \E j \in 1..Len(req[r].paths) :
        /\ req[r].paths[j].path = path
        /\ Lower(mi.http_method) \in DOMAIN req[r].paths[j].item.operations

\* C29: every operation built for a collected endpoint is in the paths under
\* the endpoint's path key and the lower-cased verb, also when another
\* collected endpoint has the same path key; only OPTIONS methods give none.
C29_EveryBuiltOperationIsKept ==
    \A r \in RequestIds :
        Built(r) =>
            \A i \in 1..Len(req[r].endpoints) :
                \A mi \in Range(view_method_introspectors(req[r].endpoints[i].callback)) :
                    (mi.http_method # "OPTIONS" /\ IsBuilt(r, mi))
                    <=> Under(r, req[r].endpoints[i].path, mi)

----------------------------------------------------------------------------
(* Body parameters and the definitions of the same build (Spec)            *)

\* the descriptors of r for which _get_operation_parameters emitted a body
\* parameter: an emitted operation whose first parameter is the one
\* build_body_parameters makes for its request serializer
WithBodyParameter(r) ==
    {mi \in EmittedDescriptors(r) :
        /\ get_request_serializer_class(mi).error = ""
        /\ get_request_serializer_class(mi).serializer # NoneSer
        /\ OperationOf(r, mi)["parameters"] # <<>>
        /\ OperationOf(r, mi)["parameters"][1] =
               build_body_parameters(get_request_serializer_class(mi).serializer)}

BodyRef(r, mi) == OperationOf(r, mi)["parameters"][1]["schema"]["ref"]

\* get_root reached 'definitions' only after 'paths'
PathsBeforeDefinitions(r) ==
    \A i \in 1..Len(req[r].trail) :
        req[r].trail[i] = "definitions" => \E j \in 1..(i - 1) : req[r].trail[j] = "paths"

\* C30: within one build the paths are assembled before the definitions;
\* once the paths are built, the request serializer of every body parameter
\* in them is in explicit_serializers, and in the returned document the name
\* under the body parameter's '$ref' is a key of the definitions.
C30_BodyParameterIsDefined ==
    \A r \in RequestIds :
        /\ PathsBeforeDefinitions(r)
        /\ Built(r) =>
               \A mi \in WithBodyParameter(r) :
                   /\ get_request_serializer_class(mi).serializer \in explicit_serializers
                   /\ Responded(r) => BodyRef(r, mi) \in DOMAIN Definitions(r)

\* a returned document whose body parameter names a serializer that no
\* response of the handlers names
C30_Witness ==
    \E r \in RequestIds :
        /\ Responded(r)
        /\ \E mi \in WithBodyParameter(r) :
               /\ BodyRef(r, mi) = "RSerializer"
               /\ BodyRef(r, mi) \in DOMAIN Definitions(r)
               /\ get_request_serializer_class(mi).serializer
                      \notin get_serializer_set(req[r].endpoints).set

====
